---------------------------- MODULE Spec2Model ----------------------------
(***************************************************************************)
(* A model of the presentation-composition engine of document_generator:   *)
(* PowerPointAdvancedGenerator (parse_slide_metadata,                      *)
(* get_template_slide_types, generate_from_slides and its helpers).        *)
(*                                                                         *)
(* Text is a sequence of symbols.  A symbol is either one significant      *)
(* character (a quote, a brace, a backslash, a blank) or a maximal run of  *)
(* ordinary characters written as one string ("slide_type", "a", "5").     *)
(*   "DQ"  straight double quote        "SQ"  straight single quote        *)
(*   "LDQ" left  double quote U+201C    "RDQ" right double quote U+201D    *)
(*   "LSQ" left  single quote U+2018    "RSQ" right single quote U+2019    *)
(*   "BS"  backslash                    " "   white space                  *)
(*   "u201c", "u201d", "u2018", "u2019" the tail of a \uXXXX escape        *)
(*   "BIGNUM" a run of more than 4300 decimal digits                       *)
(***************************************************************************)
EXTENDS Integers, Sequences, FiniteSets, TLC

(***************************************************************************)
(* Bounds of the model.                                                    *)
(***************************************************************************)
\* longest string (in symbols) inside a metadata value of SpecParse
MaxStrLen == 3
\* longest raw notes text (in symbols) of SpecParse
MaxNotesLen == 3

(***************************************************************************)
(* Python values (the result of json.loads, request field values).  Every  *)
(* value is a record of the same shape so that any two can be compared:    *)
(*   k  the Python type: "none" "bool" "num" "str" "arr" "obj"             *)
(*   s  the text of a str, or the literal of a num / bool, as symbols      *)
(*   m  the members of an obj (key, val) or the elements of an arr (val)   *)
(***************************************************************************)
JNone == [k |-> "none", s |-> <<>>, m |-> <<>>]

JStr(s) == [k |-> "str", s |-> s, m |-> <<>>]

JNum(d) == [k |-> "num", s |-> <<d>>, m |-> <<>>]

JBool(b) == [k |-> "bool", s |-> <<b>>, m |-> <<>>]

JArr(elems) ==
    [k |-> "arr", s |-> <<>>,
     m |-> [i \in 1..Len(elems) |-> [key |-> <<>>, val |-> elems[i]]]]

JObj(members) == [k |-> "obj", s |-> <<>>, m |-> members]

Member(key, val) == [key |-> key, val |-> val]

\* bool(v): Python truthiness
Truthy(v) ==
    CASE v.k = "none" -> FALSE
      [] v.k = "bool" -> v.s = <<"true">>
      [] v.k = "num"  -> v.s # <<"0">>
      [] v.k = "str"  -> v.s # <<>>
      [] OTHER        -> v.m # <<>>

\* dict: key in d
HasKey(d, key) == \E i \in 1..Len(d.m) : d.m[i].key = key

\* dict: d[key] (the key is present)
DictGet(d, key) == d.m[CHOOSE i \in 1..Len(d.m) : d.m[i].key = key].val

\* dict: d.get(key, default)
DictGetOr(d, key, default) == IF HasKey(d, key) THEN DictGet(d, key) ELSE default

\* dict: d[key] = val (a key already present keeps its position)
DictPut(members, key, val) ==
    IF \E i \in 1..Len(members) : members[i].key = key
    THEN [i \in 1..Len(members) |->
             IF members[i].key = key THEN Member(key, val) ELSE members[i]]
    ELSE Append(members, Member(key, val))

\* dict: the keys in insertion order
DictKeys(d) == [i \in 1..Len(d.m) |-> d.m[i].key]

(***************************************************************************)
(* str methods on symbol sequences.                                        *)
(***************************************************************************)
\* the white space str.strip() removes: blank, line feed, vertical tab
WhiteSpace == {" ", "NL", "VT"}

RECURSIVE LStrip(_)
LStrip(t) == IF t # <<>> /\ Head(t) \in WhiteSpace THEN LStrip(Tail(t)) ELSE t

RECURSIVE RStrip(_)
RStrip(t) ==
    IF t # <<>> /\ t[Len(t)] \in WhiteSpace
    THEN RStrip(SubSeq(t, 1, Len(t) - 1)) ELSE t

\* str.strip()
Strip(t) == RStrip(LStrip(t))

\* str.replace(old, new) for a one-character old
ReplaceChar(t, old, new) == [i \in 1..Len(t) |-> IF t[i] = old THEN new ELSE t[i]]

(***************************************************************************)
(* json.loads: a recursive-descent reading of the text.  A result is       *)
(* [ok, exc, val, pos]; exc is the exception json.loads raises when ok is  *)
(* FALSE: json.JSONDecodeError for text that is not JSON, and a plain      *)
(* ValueError for an integer literal longer than the interpreter's         *)
(* int-string conversion limit (4300 digits), which the scanner passes to  *)
(* int().                                                                  *)
(***************************************************************************)
ParseFail == [ok |-> FALSE, exc |-> "JSONDecodeError", val |-> JNone, pos |-> 0]

ParseRaise(e) == [ok |-> FALSE, exc |-> e, val |-> JNone, pos |-> 0]

ParseOk(v, p) == [ok |-> TRUE, exc |-> "none", val |-> v, pos |-> p]

RECURSIVE SkipWs(_, _)
SkipWs(t, i) == IF i <= Len(t) /\ t[i] = " " THEN SkipWs(t, i + 1) ELSE i

\* the character a backslash escape stands for ("" when the escape is invalid)
Unescape(c) ==
    CASE c = "DQ"    -> "DQ"
      [] c = "BS"    -> "BS"
      [] c = "u201c" -> "LDQ"
      [] c = "u201d" -> "RDQ"
      [] c = "u2018" -> "LSQ"
      [] c = "u2019" -> "RSQ"
      [] OTHER       -> ""

\* the string whose opening quote precedes position i
RECURSIVE ScanString(_, _, _)
ScanString(t, i, acc) ==
    IF i > Len(t) THEN ParseFail
    ELSE IF t[i] = "DQ" THEN ParseOk(JStr(acc), i + 1)
    ELSE IF t[i] = "BS"
         THEN IF i + 1 > Len(t) \/ Unescape(t[i + 1]) = ""
              THEN ParseFail
              ELSE ScanString(t, i + 2, Append(acc, Unescape(t[i + 1])))
    ELSE ScanString(t, i + 1, Append(acc, t[i]))

RECURSIVE ParseValue(_, _), ParseMembers(_, _, _), ParseElements(_, _, _)
ParseValue(t, i) ==
    IF i > Len(t) THEN ParseFail
    ELSE CASE t[i] = "DQ" -> ScanString(t, i + 1, <<>>)
           [] t[i] = "{" ->
                LET j == SkipWs(t, i + 1)
                IN  IF j <= Len(t) /\ t[j] = "}"
                    THEN ParseOk(JObj(<<>>), j + 1)
                    ELSE ParseMembers(t, j, <<>>)
           [] t[i] = "[" ->
                LET j == SkipWs(t, i + 1)
                IN  IF j <= Len(t) /\ t[j] = "]"
                    THEN ParseOk(JArr(<<>>), j + 1)
                    ELSE ParseElements(t, j, <<>>)
           [] t[i] \in {"0", "5"} -> ParseOk(JNum(t[i]), i + 1)
           [] t[i] = "BIGNUM" -> ParseRaise("ValueError")
           [] t[i] \in {"true", "false"} -> ParseOk(JBool(t[i]), i + 1)
           [] t[i] = "null" -> ParseOk(JNone, i + 1)
           [] OTHER -> ParseFail

\* the members of an object from position j (a key is expected there)
ParseMembers(t, j, acc) ==
    IF j > Len(t) \/ t[j] # "DQ" THEN ParseFail
    ELSE LET key == ScanString(t, j + 1, <<>>)
         IN  IF ~key.ok THEN key
             ELSE LET c == SkipWs(t, key.pos)
                  IN  IF c > Len(t) \/ t[c] # ":" THEN ParseFail
                      ELSE LET v == ParseValue(t, SkipWs(t, c + 1))
                           IN  IF ~v.ok THEN v
                               ELSE LET e == SkipWs(t, v.pos)
                                        members == DictPut(acc, key.val.s, v.val)
                                    IN  IF e > Len(t) THEN ParseFail
                                        ELSE IF t[e] = "}"
                                        THEN ParseOk(JObj(members), e + 1)
                                        ELSE IF t[e] = ","
                                        THEN ParseMembers(t, SkipWs(t, e + 1), members)
                                        ELSE ParseFail

\* the elements of an array from position j (a value is expected there)
ParseElements(t, j, acc) ==
    LET v == ParseValue(t, j)
    IN  IF ~v.ok THEN v
        ELSE LET e == SkipWs(t, v.pos)
                 elems == Append(acc, v.val)
             IN  IF e > Len(t) THEN ParseFail
                 ELSE IF t[e] = "]" THEN ParseOk(JArr(elems), e + 1)
                 ELSE IF t[e] = "," THEN ParseElements(t, SkipWs(t, e + 1), elems)
                 ELSE ParseFail

\* json.loads(text)
JsonLoads(t) ==
    LET r == ParseValue(t, SkipWs(t, 1))
    IN  IF ~r.ok THEN r
        ELSE IF SkipWs(t, r.pos) = Len(t) + 1 THEN r
        ELSE ParseFail

(***************************************************************************)
(* json.dumps(metadata, indent=2), the serialisation of an annotation.     *)
(* The double quote and the backslash of a string are escaped with a       *)
(* backslash.  With ensure_ascii (the default, and what the template       *)
(* builder of the repository uses) every non-ASCII character of a string   *)
(* leaves as a \uXXXX escape; without it, and in an annotation typed into  *)
(* the notes pane, the character stands as it is.  The line breaks and the *)
(* indentation are one blank each.                                         *)
(***************************************************************************)
JsonEscapeChar(c, ensure_ascii) ==
    CASE c = "DQ"  -> <<"BS", "DQ">>
      [] c = "BS"  -> <<"BS", "BS">>
      [] ensure_ascii /\ c = "LDQ" -> <<"BS", "u201c">>
      [] ensure_ascii /\ c = "RDQ" -> <<"BS", "u201d">>
      [] ensure_ascii /\ c = "LSQ" -> <<"BS", "u2018">>
      [] ensure_ascii /\ c = "RSQ" -> <<"BS", "u2019">>
      [] OTHER     -> <<c>>

RECURSIVE JsonEscape(_, _)
JsonEscape(s, ensure_ascii) ==
    IF s = <<>> THEN <<>>
    ELSE JsonEscapeChar(Head(s), ensure_ascii) \o JsonEscape(Tail(s), ensure_ascii)

JsonString(s, ensure_ascii) == <<"DQ">> \o JsonEscape(s, ensure_ascii) \o <<"DQ">>

RECURSIVE Dumps(_, _), DumpMembers(_, _, _), DumpElements(_, _, _)
Dumps(v, ensure_ascii) ==
    CASE v.k = "none" -> <<"null">>
      [] v.k \in {"bool", "num"} -> v.s
      [] v.k = "str" -> JsonString(v.s, ensure_ascii)
      [] v.k = "arr" ->
            IF v.m = <<>> THEN <<"[", "]">>
            ELSE <<"[", " ">> \o DumpElements(v.m, 1, ensure_ascii) \o <<" ", "]">>
      [] OTHER ->
            IF v.m = <<>> THEN <<"{", "}">>
            ELSE <<"{", " ">> \o DumpMembers(v.m, 1, ensure_ascii) \o <<" ", "}">>

DumpMembers(m, i, ensure_ascii) ==
    JsonString(m[i].key, ensure_ascii) \o <<":", " ">> \o Dumps(m[i].val, ensure_ascii)
      \o (IF i = Len(m) THEN <<>>
          ELSE <<",", " ">> \o DumpMembers(m, i + 1, ensure_ascii))

DumpElements(m, i, ensure_ascii) ==
    Dumps(m[i].val, ensure_ascii)
      \o (IF i = Len(m) THEN <<>>
          ELSE <<",", " ">> \o DumpElements(m, i + 1, ensure_ascii))

\* json.dumps(v, indent=2)
JsonDumps(v) == Dumps(v, TRUE)

(***************************************************************************)
(* PowerPointAdvancedGenerator.parse_slide_metadata.  A slide's notes are  *)
(* [has, text]: has is slide.has_notes_slide, text the notes text frame's  *)
(* text.  The result is [exc, val]: exc names the exception that leaves    *)
(* the method ("none": it returned val).                                   *)
(***************************************************************************)
\* a normalisation that forgets the right double quote
NormalizeLeftOnly(t) ==
    ReplaceChar(ReplaceChar(ReplaceChar(t, "LDQ", "DQ"), "LSQ", "SQ"), "RSQ", "SQ")

\* lines 31-32: the four typographic quotes become straight quotes
NormalizeQuotes(t) ==
    ReplaceChar(ReplaceChar(ReplaceChar(ReplaceChar(t,
        "LDQ", "DQ"), "RDQ", "DQ"), "LSQ", "SQ"), "RSQ", "SQ")

Returned(v) == [exc |-> "none", val |-> v]

Raised(e) == [exc |-> e, val |-> JNone]

parse_slide_metadata(notes) ==
    IF ~notes.has THEN Returned(JNone)
    ELSE LET notes_text == Strip(notes.text)
         IN  IF notes_text = <<>> THEN Returned(JNone)
             ELSE LET r == JsonLoads(NormalizeQuotes(notes_text))
                  IN  IF r.ok THEN Returned(r.val)
                      ELSE IF r.exc = "JSONDecodeError" THEN Returned(JNone)
                      ELSE Raised(r.exc)

(***************************************************************************)
(* Text of shapes.  "NL" is a line feed, "VT" a vertical tab (python-pptx   *)
(* reads a line break inside a paragraph as one), "{{" and "}}" the braces  *)
(* of a placeholder token.                                                  *)
(***************************************************************************)
\* f"{{{{{field_name}}}}}"
Token(field_name) == <<"{{">> \o field_name \o <<"}}">>

\* whether pat occurs in t at position i
OccursAt(t, pat, i) ==
    /\ i + Len(pat) - 1 <= Len(t)
    /\ \A j \in 1..Len(pat) : t[i + j - 1] = pat[j]

\* pat in t
Contains(t, pat) == \E i \in 1..(Len(t) + 1) : OccursAt(t, pat, i)

\* str.replace(pat, val) for a non-empty pat: leftmost occurrences, not overlapping
RECURSIVE ReplaceFrom(_, _, _, _)
ReplaceFrom(t, pat, val, i) ==
    IF i > Len(t) THEN <<>>
    ELSE IF OccursAt(t, pat, i)
         THEN val \o ReplaceFrom(t, pat, val, i + Len(pat))
         ELSE <<t[i]>> \o ReplaceFrom(t, pat, val, i + 1)

Replace(t, pat, val) == ReplaceFrom(t, pat, val, 1)

\* str(value) of a request value
RECURSIVE PyRepr(_), ReprElements(_, _)
PyRepr(v) ==
    CASE v.k = "none" -> <<"None">>
      [] v.k = "bool" -> IF v.s = <<"true">> THEN <<"True">> ELSE <<"False">>
      [] v.k = "num"  -> v.s
      [] v.k = "str"  -> <<"SQ">> \o v.s \o <<"SQ">>
      [] v.k = "arr"  -> <<"[">> \o ReprElements(v.m, 1) \o <<"]">>
      [] OTHER        -> <<"{">> \o ReprElements(v.m, 1) \o <<"}">>

ReprElements(m, i) ==
    IF i > Len(m) THEN <<>>
    ELSE (IF m[i].key = <<>> THEN <<>> ELSE <<"SQ">> \o m[i].key \o <<"SQ", ":", " ">>)
           \o PyRepr(m[i].val)
           \o (IF i = Len(m) THEN <<>> ELSE <<",", " ">> \o ReprElements(m, i + 1))

PyStr(v) == IF v.k = "str" THEN v.s ELSE PyRepr(v)

(***************************************************************************)
(* Shapes and slides.  A shape is [kind, ph, paras, img, cells]:           *)
(*   kind   "placeholder" (a text placeholder), "pic_placeholder",         *)
(*          "picture", "textbox", "autoshape", "connector", "group",       *)
(*          "table"                                                        *)
(*   ph     the placeholder index (-1: not a placeholder)                  *)
(*   paras  the paragraphs of the text frame, each [text, level]           *)
(*   img    the image bytes ("": none)                                     *)
(*   cells  the rows of a table, each a sequence of cell texts             *)
(* A slide is [notes, layout, shapes, built_from]: layout is the position  *)
(* of its layout in the presentation, built_from the index of the template *)
(* slide an output slide was composed from (-1: a slide that came with the *)
(* file).                                                                  *)
(***************************************************************************)
Para(text, level) == [text |-> text, level |-> level]

EmptyFrame == <<Para(<<>>, 0)>>

Shape(kind, ph, paras, img, cells) ==
    [kind |-> kind, ph |-> ph, paras |-> paras, img |-> img, cells |-> cells,
     broken |-> FALSE, pos |-> "p0", geom |-> "", fill |-> "none"]

\* the shape at a position and size (left, top, width, height)
At(sh, pos) == [sh EXCEPT !.pos = pos]

\* an auto shape of a geometry (auto_shape_type) and a fill: "none" (no solid
\* fill), "rgb" (solid, an RGB colour), "theme" (solid, a theme colour, which
\* has no rgb value to read) or "solid" (solid, no colour given)
Styled(sh, geom, fill) == [sh EXCEPT !.geom = geom, !.fill = fill]

\* a shape whose copy raises inside python-pptx (a linked picture without an
\* embedded image, a shape the library cannot add)
Broken(sh) == [sh EXCEPT !.broken = TRUE]

TextPlaceholder(ph, paras) == Shape("placeholder", ph, paras, "", <<>>)

PicturePlaceholder(ph, img) == Shape("pic_placeholder", ph, <<>>, img, <<>>)

Picture(img) == Shape("picture", -1, <<>>, img, <<>>)

\* a picture whose image is linked, not embedded: shape_type LINKED_PICTURE
LinkedPicture(img) == Shape("linked_picture", -1, <<>>, img, <<>>)

TextBox(paras) == Shape("textbox", -1, paras, "", <<>>)

AutoShape(paras) == Shape("autoshape", -1, paras, "", <<>>)

Connector == Shape("connector", -1, <<>>, "", <<>>)

Table(cells) == Shape("table", -1, <<>>, "", cells)

\* hasattr(shape, 'is_placeholder') and shape.is_placeholder
IsPlaceholder(sh) == sh.kind \in {"placeholder", "pic_placeholder"}

\* hasattr(shape, 'text_frame')
HasTextFrame(sh) == sh.kind \in {"placeholder", "textbox", "autoshape"}

\* hasattr(shape, 'table')
HasTable(sh) == sh.kind = "table"

\* text_frame.text: the paragraphs joined by line feeds
RECURSIVE JoinParas(_, _)
JoinParas(paras, i) ==
    IF i > Len(paras) THEN <<>>
    ELSE paras[i].text \o (IF i = Len(paras) THEN <<>> ELSE <<"NL">> \o JoinParas(paras, i + 1))

FrameText(sh) == JoinParas(sh.paras, 1)

\* text_frame.clear(): one paragraph is left, emptied, its properties kept
ClearFrame(paras) == <<Para(<<>>, paras[1].level)>>

\* paragraph.text = t: a line feed becomes a line break, read back as "VT"
ParaText(t) == ReplaceChar(t, "NL", "VT")

\* the slide layouts of the presentation (of the template and of its copy)
Layouts ==
    <<[name |-> "Title Slide", placeholders |-> <<[idx |-> 0, type |-> "text"]>>],
      [name |-> "Blank", placeholders |-> <<>>]>>

\* slides.add_slide(layout): a slide with the layout's placeholders, empty
NewSlide(layout, template_index) ==
    [notes |-> [has |-> FALSE, text |-> <<>>],
     layout |-> layout,
     shapes |-> [i \in 1..Len(Layouts[layout].placeholders) |->
                    LET p == Layouts[layout].placeholders[i]
                    IN  IF p.type = "text" THEN TextPlaceholder(p.idx, EmptyFrame)
                        ELSE PicturePlaceholder(p.idx, "")],
     built_from |-> template_index]

(***************************************************************************)
(* The content cloner.                                                     *)
(***************************************************************************)
\* _copy_text_frame_content: target.clear(), then one added paragraph per
\* source paragraph (text and level)
copy_text_frame_content(source_paras, target_paras) ==
    ClearFrame(target_paras)
      \o [i \in 1..Len(source_paras) |->
             Para(ParaText(source_paras[i].text), source_paras[i].level)]

\* the position of the first placeholder of the target with this index (0: none)
TargetPlaceholder(shapes, ph) ==
    IF \E i \in 1..Len(shapes) : IsPlaceholder(shapes[i]) /\ shapes[i].ph = ph
    THEN CHOOSE i \in 1..Len(shapes) :
            /\ IsPlaceholder(shapes[i]) /\ shapes[i].ph = ph
            /\ \A j \in 1..(i - 1) : ~(IsPlaceholder(shapes[j]) /\ shapes[j].ph = ph)
    ELSE 0

\* lines 249-280: the image of a source picture placeholder goes into the
\* target placeholder of the same index (insert_picture exists on an empty
\* picture placeholder only; otherwise the image is added as a picture)
RECURSIVE FillPicturePlaceholders(_, _, _)
FillPicturePlaceholders(source, target, i) ==
    IF i > Len(source) THEN target
    ELSE LET sh == source[i]
             t  == TargetPlaceholder(target, sh.ph)
             next == IF sh.kind = "pic_placeholder" /\ sh.img # "" /\ t # 0
                           /\ ~sh.broken
                     THEN IF target[t].kind = "pic_placeholder" /\ target[t].img = ""
                          THEN [target EXCEPT ![t].img = sh.img]
                          ELSE Append(target, Picture(sh.img))
                     ELSE target
         IN  FillPicturePlaceholders(source, next, i + 1)

\* a copy loop that one failing shape ends: the shapes after it are not copied
RECURSIVE CopyFreeShapesUntilFailure(_, _, _)
CopyFreeShapesUntilFailure(source, target, i) ==
    IF i > Len(source) THEN target
    ELSE LET sh == source[i]
         IN  IF IsPlaceholder(sh) \/ sh.kind \in {"connector", "table"}
                \/ (sh.kind = "autoshape" /\ Strip(FrameText(sh)) = <<>>)
             THEN CopyFreeShapesUntilFailure(source, target, i + 1)
             ELSE IF sh.broken THEN target
             ELSE CopyFreeShapesUntilFailure(source,
                     Append(target,
                        IF sh.kind = "picture" THEN Picture(sh.img)
                        ELSE [sh EXCEPT !.paras = copy_text_frame_content(@, EmptyFrame)]),
                     i + 1)

\* lines 347-353: a solid fill is made solid and given the rgb value of the
\* source; reading the rgb value of a theme colour raises, which line 352
\* swallows after line 350 has made the fill solid
CopiedFill(fill) ==
    IF fill = "rgb" THEN "rgb" ELSE IF fill = "theme" THEN "solid" ELSE "none"

\* lines 283-358: the free-form shapes, by kind
RECURSIVE CopyFreeShapes(_, _, _)
CopyFreeShapes(source, target, i) ==
    IF i > Len(source) THEN target
    ELSE LET sh == source[i]
             next ==
                IF IsPlaceholder(sh) THEN target
                ELSE IF sh.kind = "autoshape" /\ Strip(FrameText(sh)) = <<>>
                THEN target
                ELSE IF sh.kind = "connector" THEN target
                ELSE IF sh.broken THEN target
                ELSE IF sh.kind = "picture"
                THEN Append(target, At(Picture(sh.img), sh.pos))
                ELSE IF sh.kind = "textbox"
                THEN Append(target,
                        At(TextBox(copy_text_frame_content(sh.paras, EmptyFrame)), sh.pos))
                ELSE IF sh.kind = "autoshape"
                THEN Append(target,
                        Styled(At(AutoShape(copy_text_frame_content(sh.paras, EmptyFrame)),
                                  sh.pos),
                               sh.geom, CopiedFill(sh.fill)))
                ELSE target
         IN  CopyFreeShapes(source, next, i + 1)

\* _copy_slide_shapes(source_slide, target_slide): the shapes of the target
copy_slide_shapes(source, target) ==
    CopyFreeShapes(source, FillPicturePlaceholders(source, target, 1), 1)

\* _copy_placeholder_content(source_slide, target_slide)
RECURSIVE copy_placeholder_content(_, _, _)
copy_placeholder_content(source, target, i) ==
    IF i > Len(source) THEN target
    ELSE LET sh == source[i]
             t  == TargetPlaceholder(target, sh.ph)
             next == IF sh.kind = "placeholder" /\ t # 0 /\ HasTextFrame(target[t])
                           /\ ~sh.broken
                     THEN [target EXCEPT ![t].paras =
                              copy_text_frame_content(sh.paras, target[t].paras)]
                     ELSE target
         IN  copy_placeholder_content(source, next, i + 1)

(***************************************************************************)
(* The field populator.  An outcome is [exc, shapes]: exc names the        *)
(* exception that leaves the method ("none": it returned, and shapes are   *)
(* the shapes of the slide afterwards).                                    *)
(***************************************************************************)
Done(shapes) == [exc |-> "none", shapes |-> shapes]

Throws(e) == [exc |-> e, shapes |-> <<>>]

\* iter(v): the items a for loop over v visits ([ok, items])
Iterate(v) ==
    CASE v.k = "arr" -> [ok |-> TRUE, items |-> [i \in 1..Len(v.m) |-> v.m[i].val]]
      [] v.k = "obj" -> [ok |-> TRUE, items |-> [i \in 1..Len(v.m) |-> JStr(v.m[i].key)]]
      [] v.k = "str" -> [ok |-> TRUE, items |-> [i \in 1..Len(v.s) |-> JStr(<<v.s[i]>>)]]
      [] OTHER       -> [ok |-> FALSE, items |-> <<>>]

\* whether some cell of the table holds the text
TableContains(cells, pat) ==
    \E r \in 1..Len(cells) : \E c \in 1..Len(cells[r]) : Contains(cells[r][c], pat)

\* _replace_text_in_slide on one shape
ReplaceInShape(sh, placeholder, value) ==
    LET framed == IF HasTextFrame(sh) /\ Contains(FrameText(sh), placeholder)
                  THEN [sh EXCEPT !.paras =
                           <<Para(ParaText(Replace(FrameText(sh), placeholder, value)),
                                  sh.paras[1].level)>>]
                  ELSE sh
    IN  IF HasTable(sh)
        THEN [framed EXCEPT !.cells =
                 [r \in 1..Len(sh.cells) |-> [c \in 1..Len(sh.cells[r]) |->
                     IF Contains(sh.cells[r][c], placeholder)
                     THEN ParaText(Replace(sh.cells[r][c], placeholder, value))
                     ELSE sh.cells[r][c]]]]
        ELSE framed

\* a replacement that leaves every shape as it is
ReplaceNowhere(shapes, placeholder, value) == shapes

\* _replace_text_in_slide(slide, placeholder, value)
replace_text_in_slide(shapes, placeholder, value) ==
    [i \in 1..Len(shapes) |-> ReplaceInShape(shapes[i], placeholder, value)]

\* the position of the first shape with a text frame holding the text (0: none)
FirstTextShape(shapes, pat) ==
    LET hit(i) == HasTextFrame(shapes[i]) /\ Contains(FrameText(shapes[i]), pat)
    IN  IF \E i \in 1..Len(shapes) : hit(i)
        THEN CHOOSE i \in 1..Len(shapes) : hit(i) /\ \A j \in 1..(i - 1) : ~hit(j)
        ELSE 0

\* _populate_list_field(slide, field_name, items)
populate_list_field(shapes, field_name, items) ==
    LET i  == FirstTextShape(shapes, Token(field_name))
        it == Iterate(items)
    IN  IF i = 0 THEN Done(shapes)
        ELSE IF ~it.ok THEN Throws("TypeError")
        ELSE IF it.items = <<>>
        THEN Done([shapes EXCEPT ![i].paras = ClearFrame(@)])
        ELSE Done([shapes EXCEPT ![i].paras =
                      [n \in 1..Len(it.items) |-> Para(ParaText(PyStr(it.items[n])), 0)]])

\* the position of the first table with a cell holding the text (0: none)
FirstTable(shapes, pat) ==
    LET hit(i) == HasTable(shapes[i]) /\ TableContains(shapes[i].cells, pat)
    IN  IF \E i \in 1..Len(shapes) : hit(i)
        THEN CHOOSE i \in 1..Len(shapes) : hit(i) /\ \A j \in 1..(i - 1) : ~hit(j)
        ELSE 0

\* a fill that adds the rows and the cells the data asks for
FillCellsGrowing(cells, rows) ==
    [r \in 1..(IF Len(rows) > Len(cells) THEN Len(rows) ELSE Len(cells)) |->
        [c \in 1..(IF r <= Len(rows) /\ (r > Len(cells) \/ Len(Iterate(rows[r]).items) > Len(cells[r]))
                   THEN Len(Iterate(rows[r]).items) ELSE Len(cells[r])) |->
            IF r <= Len(rows) /\ c <= Len(Iterate(rows[r]).items)
            THEN PyStr(Iterate(rows[r]).items[c])
            ELSE cells[r][c]]]

\* lines 494-498: the cells of the table after the fill
FillCells(cells, rows) ==
    [r \in 1..Len(cells) |-> [c \in 1..Len(cells[r]) |->
        IF r <= Len(rows) /\ c <= Len(Iterate(rows[r]).items)
        THEN PyStr(Iterate(rows[r]).items[c])
        ELSE cells[r][c]]]

\* _populate_table_field(slide, field_name, table_data)
populate_table_field(shapes, field_name, table_data) ==
    LET i  == FirstTable(shapes, Token(field_name))
        it == Iterate(table_data)
    IN  IF i = 0 \/ ~Truthy(table_data) THEN Done(shapes)
        ELSE IF ~it.ok THEN Throws("TypeError")
        ELSE IF \E r \in 1..Len(it.items) :
                   r <= Len(shapes[i].cells) /\ ~Iterate(it.items[r]).ok
        THEN Throws("TypeError")
        ELSE LET cleared == [r \in 1..Len(shapes[i].cells) |->
                               [c \in 1..Len(shapes[i].cells[r]) |->
                                   Replace(shapes[i].cells[r][c], Token(field_name), <<>>)]]
             IN  Done([shapes EXCEPT ![i].cells = FillCells(cleared, it.items)])

\* an image field handled as a text field: the path takes the place of the token
PopulateImageAsText(shapes, field_name, image_path) ==
    Done(replace_text_in_slide(shapes, Token(field_name), PyStr(image_path)))

\* _populate_image_field: a stub
populate_image_field(shapes, field_name, image_path) == Done(shapes)

\* lines 387-405: one field of the request
PopulateField(shapes, field, placeholders_info) ==
    IF placeholders_info.k # "obj" THEN Throws("AttributeError")
    ELSE LET placeholder_info == DictGetOr(placeholders_info, field.key, JObj(<<>>))
         IN  IF placeholder_info.k # "obj" THEN Throws("AttributeError")
             ELSE LET field_type ==
                         DictGetOr(placeholder_info, <<"type">>, JStr(<<"text">>))
                  IN  IF field_type \in {JStr(<<"text">>), JStr(<<"paragraph">>),
                                         JStr(<<"number">>), JStr(<<"date">>)}
                      THEN Done(replace_text_in_slide(shapes, Token(field.key),
                                                      PyStr(field.val)))
                      ELSE IF field_type = JStr(<<"list">>)
                      THEN populate_list_field(shapes, field.key, field.val)
                      ELSE IF field_type = JStr(<<"table">>)
                      THEN populate_table_field(shapes, field.key, field.val)
                      ELSE IF field_type = JStr(<<"image">>)
                      THEN populate_image_field(shapes, field.key, field.val)
                      ELSE Done(shapes)

RECURSIVE PopulateFields(_, _, _, _)
PopulateFields(shapes, fields, i, placeholders_info) ==
    IF i > Len(fields) THEN Done(shapes)
    ELSE LET r == PopulateField(shapes, fields[i], placeholders_info)
         IN  IF r.exc # "none" THEN r
             ELSE PopulateFields(r.shapes, fields, i + 1, placeholders_info)

\* _populate_slide(slide, fields, metadata)
populate_slide(shapes, fields, metadata) ==
    IF Truthy(metadata) /\ metadata.k # "obj" THEN Throws("AttributeError")
    ELSE PopulateFields(shapes, fields, 1,
            IF Truthy(metadata)
            THEN DictGetOr(metadata, <<"placeholders">>, JObj(<<>>))
            ELSE JObj(<<>>))

(***************************************************************************)
(* The slide catalog and the selector.  The catalog (slide_type_map) is a  *)
(* dict, modelled as the sequence of its items in insertion order: each    *)
(* [key, entries], an entry being [index, metadata] (the slide itself is   *)
(* the template slide at that index).                                      *)
(***************************************************************************)
\* "slide_type" in metadata: [exc, val]
InMetadata(metadata) ==
    CASE metadata.k = "obj" ->
            [exc |-> "none", val |-> HasKey(metadata, <<"slide_type">>)]
      [] metadata.k = "arr" ->
            [exc |-> "none",
             val |-> \E i \in 1..Len(metadata.m) :
                        metadata.m[i].val = JStr(<<"slide_type">>)]
      [] metadata.k = "str" ->
            [exc |-> "none", val |-> Contains(metadata.s, <<"slide_type">>)]
      [] OTHER -> [exc |-> "TypeError", val |-> FALSE]

\* whether hash(v) succeeds
Hashable(v) == v.k \notin {"arr", "obj"}

\* the position of the key in the catalog (0: absent)
MapFind(map, key) ==
    IF \E i \in 1..Len(map) : map[i].key = key
    THEN CHOOSE i \in 1..Len(map) : map[i].key = key
    ELSE 0

\* every entry goes to the first bucket of the catalog, whatever its type
MapAppendToFirst(map, key, entry) ==
    IF map = <<>> THEN <<[key |-> key, entries |-> <<entry>>]>>
    ELSE [map EXCEPT ![1].entries = Append(@, entry)]

\* lines 101-107: the entry goes to the end of the bucket of its type
MapAppend(map, key, entry) ==
    LET i == MapFind(map, key)
    IN  IF i = 0 THEN Append(map, [key |-> key, entries |-> <<entry>>])
        ELSE [map EXCEPT ![i].entries = Append(@, entry)]

\* list(slide_type_map.keys())
MapKeys(map) == [i \in 1..Len(map) |-> map[i].key]

\* lines 99-107 once the metadata is parsed: [exc, map]
CatalogMetadata(map, idx, metadata) ==
    IF ~Truthy(metadata) THEN [exc |-> "none", map |-> map]
    ELSE IF InMetadata(metadata).exc # "none"
    THEN [exc |-> InMetadata(metadata).exc, map |-> map]
    ELSE IF ~InMetadata(metadata).val THEN [exc |-> "none", map |-> map]
    ELSE IF metadata.k # "obj" THEN [exc |-> "TypeError", map |-> map]
    ELSE IF ~Hashable(DictGet(metadata, <<"slide_type">>))
    THEN [exc |-> "TypeError", map |-> map]
    ELSE [exc |-> "none",
          map |-> MapAppend(map, DictGet(metadata, <<"slide_type">>),
                            [index |-> idx, metadata |-> metadata])]

CatalogParsed(map, idx, r) ==
    IF r.exc # "none" THEN [exc |-> r.exc, map |-> map]
    ELSE CatalogMetadata(map, idx, r.val)

\* lines 98-107, for the slide at idx: [exc, map]
catalog_slide(map, idx, slide) ==
    CatalogParsed(map, idx, parse_slide_metadata(slide.notes))

\* get_template_slide_types lines 53-60 once the metadata is parsed: [exc, list]
QueryMetadata(list, idx, metadata) ==
    IF ~Truthy(metadata) THEN [exc |-> "none", list |-> list]
    ELSE IF InMetadata(metadata).exc # "none"
    THEN [exc |-> InMetadata(metadata).exc, list |-> list]
    ELSE IF ~InMetadata(metadata).val THEN [exc |-> "none", list |-> list]
    ELSE IF metadata.k # "obj" THEN [exc |-> "AttributeError", list |-> list]
    ELSE [exc |-> "none",
          list |-> Append(list,
             [slide_index |-> idx,
              slide_type |-> DictGetOr(metadata, <<"slide_type">>, JNone),
              description |-> DictGetOr(metadata, <<"description">>, JStr(<<>>)),
              placeholders |-> DictGetOr(metadata, <<"placeholders">>, JObj(<<>>))])]

QueryParsed(list, idx, r) ==
    IF r.exc # "none" THEN [exc |-> r.exc, list |-> list]
    ELSE QueryMetadata(list, idx, r.val)

\* get_template_slide_types lines 52-60, for the slide at idx: [exc, list]
query_slide(list, idx, slide) ==
    QueryParsed(list, idx, parse_slide_metadata(slide.notes))

\* set(d.keys()) of a dict given as its members
KeySet(members) == {members[i].key : i \in 1..Len(members)}

\* lines 134-138: the number of declared fields that are requested
Matches(candidate, fields) ==
    Cardinality(KeySet(DictGetOr(candidate.metadata, <<"placeholders">>, JObj(<<>>)).m)
                  \cap KeySet(fields))

\* the loop with >= for >: the last of the best candidates wins
RECURSIVE BestMatchLastWins(_, _, _, _, _)
BestMatchLastWins(candidates, fields, i, best_score, best) ==
    IF i > Len(candidates) THEN best
    ELSE IF Matches(candidates[i], fields) >= best_score
         THEN BestMatchLastWins(candidates, fields, i + 1,
                                Matches(candidates[i], fields), i)
         ELSE BestMatchLastWins(candidates, fields, i + 1, best_score, best)

\* lines 130-143: the loop over the candidates from position i on;
\* best is the position of best_match (0: None)
RECURSIVE BestMatch(_, _, _, _, _)
BestMatch(candidates, fields, i, best_score, best) ==
    IF i > Len(candidates) THEN best
    ELSE IF Matches(candidates[i], fields) > best_score
         THEN BestMatch(candidates, fields, i + 1, Matches(candidates[i], fields), i)
         ELSE BestMatch(candidates, fields, i + 1, best_score, best)

\* a selector that takes the first candidate whatever the fields
SelectFirst(candidate_slides, fields) == [exc |-> "none", pos |-> 1]

\* lines 123-145: the position of the selected candidate; [exc, pos]
select_candidate(candidate_slides, fields) ==
    IF Len(candidate_slides) = 1 THEN [exc |-> "none", pos |-> 1]
    ELSE IF \E i \in 1..Len(candidate_slides) :
               DictGetOr(candidate_slides[i].metadata, <<"placeholders">>,
                         JObj(<<>>)).k # "obj"
         THEN [exc |-> "AttributeError", pos |-> 0]
         ELSE LET best == BestMatch(candidate_slides, fields, 1, -1, 0)
              IN  [exc |-> "none", pos |-> IF best # 0 THEN best ELSE 1]

\* the index of the template slide's layout could not be computed: the try
\* block of lines 184-189 raised and line 189 passed
IndexRaised == -1

\* lines 174-192: the layout for the new slide, as a position among the
\* layouts of the output (0: None); layout_idx is the index line 185
\* computed, or IndexRaised
resolve_layout(output_layouts, layout_name, layout_idx) ==
    IF \E i \in 1..Len(output_layouts) : output_layouts[i].name = layout_name
    THEN CHOOSE i \in 1..Len(output_layouts) :
            /\ output_layouts[i].name = layout_name
            /\ \A j \in 1..(i - 1) : output_layouts[j].name # layout_name
    ELSE IF layout_idx # IndexRaised /\ layout_idx < Len(output_layouts)
    THEN layout_idx + 1
    ELSE IF Len(output_layouts) > 0 THEN 1
    ELSE 0

(***************************************************************************)
(* State.                                                                  *)
(***************************************************************************)
VARIABLES
    pc,              \* the position of the running call
    meta_in,         \* SpecParse: the metadata value the template builder holds
    origin,          \* SpecParse: how the notes came about
    notes_in,        \* SpecParse: the notes of the slide handed to the parser
    parsed,          \* SpecParse: what parse_slide_metadata did, [exc, val]
    template,        \* the slides of the template file
    slides_data,     \* the request: the slide specs, in order
    slide_type_map,  \* the catalog built by generate_from_slides
    slide_types,     \* the list built by get_template_slide_types
    idx,             \* the index of the running loop
    slides_to_build, \* the resolved specs
    out_file,        \* the file at output_path: [exists, slides]
    output_prs,      \* the slides of the output presentation in memory
    err,             \* the exception that left the call
    pop,             \* one _populate_slide call: [shapes, fields, metadata, i, exc]
    svc,             \* the requests DocumentService.generate_document has named
    calls,           \* two generate_from_slides calls running together
    unit             \* one helper studied on its own: its inputs and its result

parseVars == <<meta_in, origin, notes_in, parsed>>

compVars == <<template, slides_data, slide_type_map, slide_types, idx,
              slides_to_build, out_file, output_prs, err>>

auxVars == <<pop, svc, calls, unit>>

vars == <<pc, parseVars, compVars, auxVars>>

\* an exception: its type, the step that raised it and, for the
\* type-not-found error, the requested type and the keys of the catalog
PyError(exc, at) == [exc |-> exc, at |-> at, slide_type |-> <<>>, available |-> <<>>]

NoError == PyError("none", "")

NoFile == [exists |-> FALSE, slides |-> <<>>]

NoNotes == [has |-> FALSE, text |-> <<>>]

NotParsed == [exc |-> "none", val |-> JNone]

\* the composition variables while the parser is studied on its own
CompIdle ==
    /\ template = <<>>
    /\ slides_data = <<>>
    /\ slide_type_map = <<>>
    /\ slide_types = <<>>
    /\ idx = 0
    /\ slides_to_build = <<>>
    /\ out_file = NoFile
    /\ output_prs = <<>>
    /\ err = NoError

\* the other variables while the composition or the parser is studied
AuxIdle ==
    /\ pop = <<>>
    /\ svc = <<>>
    /\ calls = <<>>
    /\ unit = <<>>

\* the parser variables while a composition is studied
ParseIdle ==
    /\ meta_in = JNone
    /\ origin = "none"
    /\ notes_in = NoNotes
    /\ parsed = NotParsed

(***************************************************************************)
(* SpecParse: the Metadata Extractor on its own.  A template author either *)
(* writes the serialised form of a metadata value into a slide's notes,    *)
(* with json.dumps ("dumped") or typed as it reads ("typed"), and a slide  *)
(* editor may then auto-correct the quotes; or leaves any text ("raw"), or *)
(* no notes.                                                               *)
(***************************************************************************)
RECURSIVE SeqsUpTo(_, _)
SeqsUpTo(S, n) ==
    IF n = 0 THEN {<<>>}
    ELSE LET shorter == SeqsUpTo(S, n - 1)
         IN  shorter \cup {Append(t, c) : t \in shorter, c \in S}

\* the characters of the strings inside a metadata value
StrChars == {"a", "DQ", "LDQ", "RSQ", "BS"}

\* the characters of a raw notes text
RawChars == {" ", "{", "}", "[", "]", "DQ", "LDQ", "a", "5", "BIGNUM"}

\* a well-formed metadata value: slide_type, description, placeholders
Metadata(slide_type, description, placeholders) ==
    JObj(<<Member(<<"slide_type">>, JStr(slide_type)),
           Member(<<"description">>, JStr(description)),
           Member(<<"placeholders">>, JObj(placeholders))>>)

\* a placeholder descriptor {type, description}
Descriptor(type, description) ==
    JObj(<<Member(<<"type">>, JStr(<<type>>)),
           Member(<<"description">>, JStr(description))>>)

MetaInputs ==
    LET strs == SeqsUpTo(StrChars, MaxStrLen)
    IN  {Metadata(t, <<"d">>, <<>>) : t \in strs}
          \cup {Metadata(<<"a">>, d, <<Member(d, Descriptor("text", d))>>) :
                   d \in strs}

ParseInit ==
    /\ CompIdle
    /\ AuxIdle
    /\ pc = "authoring"
    /\ parsed = NotParsed
    /\ \/ /\ origin \in {"dumped", "typed"}
          /\ meta_in \in MetaInputs
          /\ notes_in = NoNotes
       \/ /\ origin = "raw"
          /\ meta_in = JNone
          /\ notes_in \in {NoNotes}
                \cup {[has |-> TRUE, text |-> t] : t \in SeqsUpTo(RawChars, MaxNotesLen)}

\* the serialised form of the metadata, as it stands in the notes
Serialized(metadata, how) == Dumps(metadata, how = "dumped")

\* create_advanced_template.py: notes_text_frame.text = json.dumps(metadata, indent=2)
WriteAnnotation ==
    /\ pc = "authoring"
    /\ origin \in {"dumped", "typed"}
    /\ notes_in' = [has |-> TRUE, text |-> Serialized(meta_in, origin)]
    /\ pc' = "written"
    /\ UNCHANGED <<meta_in, origin, parsed, compVars, auxVars>>

\* a slide editor's auto-correct: every straight double quote becomes a
\* typographic one (all left, all right, or opening and closing in turn)
Curlify(t, mode) ==
    [i \in 1..Len(t) |->
        IF t[i] # "DQ" THEN t[i]
        ELSE CASE mode = "left"  -> "LDQ"
               [] mode = "right" -> "RDQ"
               [] OTHER ->
                    IF Cardinality({j \in 1..i : t[j] = "DQ"}) % 2 = 1
                    THEN "LDQ" ELSE "RDQ"]

AutoCorrect ==
    /\ pc = "written"
    /\ \E mode \in {"left", "right", "alternate"} :
          notes_in' = [notes_in EXCEPT !.text = Curlify(@, mode)]
    /\ pc' = "corrected"
    /\ UNCHANGED <<origin, meta_in, parsed, compVars, auxVars>>

\* a call of parse_slide_metadata on the slide
ParseNotes ==
    /\ \/ pc \in {"written", "corrected"}
       \/ pc = "authoring" /\ origin = "raw"
    /\ parsed' = parse_slide_metadata(notes_in)
    /\ pc' = IF pc = "corrected" THEN "parsed_corrected" ELSE "parsed"
    /\ UNCHANGED <<meta_in, origin, notes_in, compVars, auxVars>>

ParseNext == WriteAnnotation \/ AutoCorrect \/ ParseNotes

SpecParse == ParseInit /\ [][ParseNext]_vars

(***************************************************************************)
(* Spec: one call of generate_from_slides or of get_template_slide_types   *)
(* on a template.  The slides of a template and the specs of a request are *)
(* drawn from the kinds below.                                             *)
(***************************************************************************)
\* most slides of a template
MaxSlides == 2
\* most slide specs of a request
MaxSpecs == 2

Notes(text) == [has |-> TRUE, text |-> text]

TemplateSlide(notes, layout, shapes) ==
    [notes |-> notes, layout |-> layout, shapes |-> shapes, built_from |-> -1]

Field(name) == <<name>>

TokenPara(name) == <<Para(Token(Field(name)), 0)>>

\* type "a": a title placeholder of the layout, a linked picture (no
\* embedded image: its copy raises) and a picture
TitleSlide ==
    TemplateSlide(
        Notes(JsonDumps(Metadata(<<"a">>, <<"d">>,
            <<Member(Field("title"), Descriptor("text", <<"t">>))>>))),
        1,
        <<TextPlaceholder(0, TokenPara("title")), Broken(Picture("linked")),
          Picture("logo")>>)

\* type "c" with fields heading and body; an editor has curled the quotes;
\* between the two text boxes, a text box whose copy raises
BodySlide ==
    TemplateSlide(
        Notes(Curlify(JsonDumps(Metadata(<<"c">>, <<"d">>,
            <<Member(Field("heading"), Descriptor("text", <<"h">>)),
              Member(Field("body"), Descriptor("paragraph", <<"b">>))>>)),
            "alternate")),
        2,
        <<TextBox(TokenPara("heading")), Broken(TextBox(<<Para(<<"n">>, 0)>>)),
          TextBox(TokenPara("body"))>>)

\* type "c" with fields heading, items (a list) and data (a table of one row
\* and two columns); decorations
ListSlide ==
    TemplateSlide(
        Notes(JsonDumps(Metadata(<<"c">>, <<"d">>,
            <<Member(Field("heading"), Descriptor("text", <<"h">>)),
              Member(Field("items"), Descriptor("list", <<"i">>)),
              Member(Field("data"), Descriptor("table", <<"t">>))>>))),
        2,
        <<TextBox(TokenPara("heading")), Connector, TextBox(TokenPara("items")),
          AutoShape(EmptyFrame), Table(<<<<Token(Field("data")), <<>>>>>>)>>)

\* speaker notes in plain words: not JSON
SpeakerSlide == TemplateSlide(Notes(<<"a", " ", "a">>), 2, <<TextBox(<<Para(<<"a">>, 0)>>)>>)

\* an annotation without a slide_type key
UntypedSlide ==
    TemplateSlide(
        Notes(JsonDumps(JObj(<<Member(<<"description">>, JStr(<<"d">>))>>))),
        2, <<Picture("photo")>>)

\* notes that are JSON but no object: a number, a string
NumberSlide == TemplateSlide(Notes(<<"5">>), 2, <<>>)

StringSlide == TemplateSlide(Notes(<<"DQ", "slide_type", "DQ">>), 2, <<>>)

SlideKinds ==
    {TitleSlide, BodySlide, ListSlide, SpeakerSlide, UntypedSlide, NumberSlide,
     StringSlide}

SlideSpec(slide_type, fields) == [slide_type |-> slide_type, fields |-> fields]

SpecKinds ==
    {SlideSpec(<<"a">>, <<Member(Field("title"), JStr(<<"Q4">>))>>),
     SlideSpec(<<"c">>, <<Member(Field("heading"), JStr(<<"H1">>)),
                          Member(Field("body"), JStr(<<"B">>))>>),
     SlideSpec(<<"c">>, <<Member(Field("heading"), JStr(<<"H2">>)),
                          Member(Field("items"),
                                 JArr(<<JStr(<<"x">>), JStr(<<"y">>)>>)),
                          Member(Field("data"),
                                 JArr(<<JArr(<<JStr(<<"r">>)>>)>>))>>),
     SlideSpec(<<"c">>, <<Member(Field("items"), JNum("5"))>>),
     SlideSpec(<<"z">>, <<>>)}

Init ==
    /\ ParseIdle
    /\ AuxIdle
    /\ pc = "idle"
    /\ template \in SeqsUpTo(SlideKinds, MaxSlides)
    /\ slides_data = <<>>
    /\ slide_type_map = <<>>
    /\ slide_types = <<>>
    /\ idx = 0
    /\ slides_to_build = <<>>
    /\ out_file = NoFile
    /\ output_prs = <<>>
    /\ err = NoError

\* get_template_slide_types is called: lines 48-49
Query ==
    /\ pc = "idle"
    /\ pc' = IF template = <<>> THEN "listed" ELSE "query"
    /\ UNCHANGED <<parseVars, auxVars, compVars>>

QueryStepWith(r) ==
    IF r.exc # "none"
    THEN /\ pc' = "raised"
         /\ err' = PyError(r.exc, "query")
         /\ UNCHANGED <<slide_types, idx>>
    ELSE /\ slide_types' = r.list
         /\ idx' = idx + 1
         /\ pc' = IF idx + 1 = Len(template) THEN "listed" ELSE "query"
         /\ err' = err

\* lines 51-60, one slide; line 62 after the last
QueryStep ==
    /\ pc = "query"
    /\ QueryStepWith(query_slide(slide_types, idx, template[idx + 1]))
    /\ UNCHANGED <<parseVars, auxVars, template, slides_data, slide_type_map,
                   slides_to_build, out_file, output_prs>>

\* generate_from_slides is called with a request: lines 93-96
Compose ==
    /\ pc = "idle"
    /\ slides_data' \in SeqsUpTo(SpecKinds, MaxSpecs)
    /\ pc' = IF template # <<>> THEN "catalog"
             ELSE IF slides_data' # <<>> THEN "resolve" ELSE "copy"
    /\ UNCHANGED <<parseVars, auxVars, template, slide_type_map, slide_types, idx,
                   slides_to_build, out_file, output_prs, err>>

CatalogStepWith(r) ==
    IF r.exc # "none"
    THEN /\ pc' = "raised"
         /\ err' = PyError(r.exc, "catalog")
         /\ UNCHANGED <<slide_type_map, idx>>
    ELSE /\ slide_type_map' = r.map
         /\ idx' = IF idx + 1 = Len(template) THEN 0 ELSE idx + 1
         /\ pc' = IF idx + 1 < Len(template) THEN "catalog"
                  ELSE IF slides_data # <<>> THEN "resolve" ELSE "copy"
         /\ err' = err

\* lines 97-107, one slide
CatalogStep ==
    /\ pc = "catalog"
    /\ CatalogStepWith(catalog_slide(slide_type_map, idx, template[idx + 1]))
    /\ UNCHANGED <<parseVars, auxVars, template, slides_data, slide_types,
                   slides_to_build, out_file, output_prs>>

\* a resolution that keeps the fields of the first spec for every spec
KeepBuildFirstFields(slide_spec, template_info) ==
    /\ slides_to_build' = Append(slides_to_build,
           [template_index |-> template_info.index,
            fields |-> slides_data[1].fields,
            metadata |-> template_info.metadata])
    /\ idx' = IF idx + 1 = Len(slides_data) THEN 0 ELSE idx + 1
    /\ pc' = IF idx + 1 = Len(slides_data) THEN "copy" ELSE "resolve"
    /\ err' = err

\* lines 147-151: the resolved spec is kept
KeepBuild(slide_spec, template_info) ==
    /\ slides_to_build' = Append(slides_to_build,
           [template_index |-> template_info.index,
            fields |-> slide_spec.fields,
            metadata |-> template_info.metadata])
    /\ idx' = IF idx + 1 = Len(slides_data) THEN 0 ELSE idx + 1
    /\ pc' = IF idx + 1 = Len(slides_data) THEN "copy" ELSE "resolve"
    /\ err' = err

\* lines 123-151 for the candidates of the requested type
ResolveAmong(slide_spec, candidate_slides, sel) ==
    IF sel.exc # "none"
    THEN /\ pc' = "raised"
         /\ err' = PyError(sel.exc, "resolve")
         /\ UNCHANGED <<slides_to_build, idx>>
    ELSE KeepBuild(slide_spec, candidate_slides[sel.pos])

\* lines 112-151 for one slide spec; at is the position of its type in the catalog
ResolveAt(slide_spec, at) ==
    IF at = 0
    THEN /\ pc' = "raised"
         /\ err' = [exc |-> "ValueError", at |-> "resolve",
                    slide_type |-> slide_spec.slide_type,
                    available |-> MapKeys(slide_type_map)]
         /\ UNCHANGED <<slides_to_build, idx>>
    ELSE ResolveAmong(slide_spec, slide_type_map[at].entries,
                      select_candidate(slide_type_map[at].entries, slide_spec.fields))

\* lines 111-151, one slide spec
ResolveSpec ==
    /\ pc = "resolve"
    /\ ResolveAt(slides_data[idx + 1],
                 MapFind(slide_type_map, JStr(slides_data[idx + 1].slide_type)))
    /\ UNCHANGED <<parseVars, auxVars, template, slides_data, slide_type_map, slide_types,
                   out_file, output_prs>>

\* lines 155-159: the template is copied to output_path and opened
CopyTemplate ==
    /\ pc = "copy"
    /\ out_file' = [exists |-> TRUE, slides |-> template]
    /\ output_prs' = template
    /\ idx' = Len(template) - 1
    /\ pc' = IF template = <<>> THEN "reload" ELSE "delete"
    /\ UNCHANGED <<parseVars, auxVars, template, slides_data, slide_type_map, slide_types,
                   slides_to_build, err>>

\* a deletion loop that ends at index 1 and leaves the first slide
DeleteSlideDownToOne ==
    /\ pc = "delete"
    /\ output_prs' = SubSeq(output_prs, 1, idx) \o
                     SubSeq(output_prs, idx + 2, Len(output_prs))
    /\ idx' = idx - 1
    /\ pc' = IF idx <= 1 THEN "reload" ELSE "delete"
    /\ UNCHANGED <<parseVars, auxVars, template, slides_data, slide_type_map, slide_types,
                   slides_to_build, out_file, err>>

\* lines 160-163, one slide: the slide at index idx leaves the output
DeleteSlide ==
    /\ pc = "delete"
    /\ output_prs' = SubSeq(output_prs, 1, idx) \o
                     SubSeq(output_prs, idx + 2, Len(output_prs))
    /\ idx' = idx - 1
    /\ pc' = IF idx = 0 THEN "reload" ELSE "delete"
    /\ UNCHANGED <<parseVars, auxVars, template, slides_data, slide_type_map, slide_types,
                   slides_to_build, out_file, err>>

\* line 166: the template is opened again
ReloadTemplate ==
    /\ pc = "reload"
    /\ idx' = 0
    /\ pc' = IF slides_to_build = <<>> THEN "save" ELSE "add"
    /\ UNCHANGED <<parseVars, auxVars, template, slides_data, slide_type_map, slide_types,
                   slides_to_build, out_file, output_prs, err>>

\* the template slide of the build in progress
TemplateSlideOf(build_info) == template[build_info.template_index + 1]

\* lines 194-198 for the layout found (0: None)
AddSlideWith(build_info, matching_layout) ==
    IF matching_layout = 0
    THEN /\ pc' = "raised"
         /\ err' = PyError("ValueError", "add")
         /\ UNCHANGED output_prs
    ELSE /\ output_prs' = Append(output_prs,
                NewSlide(matching_layout, build_info.template_index))
         /\ pc' = "copy_shapes"
         /\ err' = err

\* lines 170-198: the layout is resolved and the new slide added
AddSlide ==
    /\ pc = "add"
    /\ AddSlideWith(slides_to_build[idx + 1],
           resolve_layout(Layouts,
               Layouts[TemplateSlideOf(slides_to_build[idx + 1]).layout].name,
               TemplateSlideOf(slides_to_build[idx + 1]).layout - 1))
    /\ UNCHANGED <<parseVars, auxVars, template, slides_data, slide_type_map, slide_types,
                   idx, slides_to_build, out_file>>

\* a copy of the shapes after which the slide is populated at once, the
\* placeholder texts of the template not copied
CopyShapesUnseeded ==
    /\ pc = "copy_shapes"
    /\ output_prs' = [output_prs EXCEPT ![Len(output_prs)].shapes =
           copy_slide_shapes(TemplateSlideOf(slides_to_build[idx + 1]).shapes, @)]
    /\ pc' = "populate"
    /\ UNCHANGED <<parseVars, auxVars, template, slides_data, slide_type_map, slide_types,
                   idx, slides_to_build, out_file, err>>

\* line 201: _copy_slide_shapes(template_slide, new_slide)
CopyShapes ==
    /\ pc = "copy_shapes"
    /\ output_prs' = [output_prs EXCEPT ![Len(output_prs)].shapes =
           copy_slide_shapes(TemplateSlideOf(slides_to_build[idx + 1]).shapes, @)]
    /\ pc' = "copy_placeholders"
    /\ UNCHANGED <<parseVars, auxVars, template, slides_data, slide_type_map, slide_types,
                   idx, slides_to_build, out_file, err>>

\* line 204: _copy_placeholder_content(template_slide, new_slide)
CopyPlaceholders ==
    /\ pc = "copy_placeholders"
    /\ output_prs' = [output_prs EXCEPT ![Len(output_prs)].shapes =
           copy_placeholder_content(
               TemplateSlideOf(slides_to_build[idx + 1]).shapes, @, 1)]
    /\ pc' = "populate"
    /\ UNCHANGED <<parseVars, auxVars, template, slides_data, slide_type_map, slide_types,
                   idx, slides_to_build, out_file, err>>

PopulateSlideWith(r) ==
    IF r.exc # "none"
    THEN /\ pc' = "raised"
         /\ err' = PyError(r.exc, "populate")
         /\ UNCHANGED <<output_prs, idx>>
    ELSE /\ output_prs' = [output_prs EXCEPT ![Len(output_prs)].shapes = r.shapes]
         /\ idx' = idx + 1
         /\ pc' = IF idx + 1 = Len(slides_to_build) THEN "save" ELSE "add"
         /\ err' = err

\* line 207: _populate_slide(new_slide, fields, metadata)
PopulateSlide ==
    /\ pc = "populate"
    /\ PopulateSlideWith(populate_slide(output_prs[Len(output_prs)].shapes,
                                        slides_to_build[idx + 1].fields,
                                        slides_to_build[idx + 1].metadata))
    /\ UNCHANGED <<parseVars, auxVars, template, slides_data, slide_type_map, slide_types,
                   slides_to_build, out_file>>

\* a save that writes the composed slides over the template as well
SaveOverTemplate ==
    /\ pc = "save"
    /\ out_file' = [exists |-> TRUE, slides |-> output_prs]
    /\ template' = output_prs
    /\ pc' = "returned"
    /\ UNCHANGED <<parseVars, auxVars, slides_data, slide_type_map, slide_types,
                   idx, slides_to_build, output_prs, err>>

\* lines 210-211: the presentation is saved to output_path
Save ==
    /\ pc = "save"
    /\ out_file' = [exists |-> TRUE, slides |-> output_prs]
    /\ pc' = "returned"
    /\ UNCHANGED <<parseVars, auxVars, template, slides_data, slide_type_map, slide_types,
                   idx, slides_to_build, output_prs, err>>

Next ==
    \/ Query \/ QueryStep
    \/ Compose \/ CatalogStep \/ ResolveSpec \/ CopyTemplate \/ DeleteSlide
    \/ ReloadTemplate \/ AddSlide \/ CopyShapes \/ CopyPlaceholders
    \/ PopulateSlide \/ Save

Spec == Init /\ [][Next]_vars

(***************************************************************************)
(* SpecPopulate: one call of _populate_slide on a slide, a field at a      *)
(* time.  The slide's shapes and the fields of the request are drawn from  *)
(* the kinds below; the metadata declares a (text), b (paragraph), l       *)
(* (list) and t (table).                                                   *)
(***************************************************************************)
\* most shapes of the slide
MaxShapes == 2
\* most fields of the request
MaxFields == 2

PopMetadata ==
    Metadata(<<"p">>, <<"d">>,
        <<Member(Field("a"), Descriptor("text", <<"d">>)),
          Member(Field("b"), Descriptor("paragraph", <<"d">>)),
          Member(Field("l"), Descriptor("list", <<"d">>)),
          Member(Field("t"), Descriptor("table", <<"d">>)),
          Member(Field("g"), Descriptor("image", <<"d">>))>>)

\* a table of two rows and two columns, the token in its first cell
TokenTable(name) == Table(<<<<Token(Field(name)), <<>>>>, <<<<>>, <<>>>>>>)

PopShapeKinds ==
    {TextBox(TokenPara("a")), TextBox(TokenPara("b")), TextBox(TokenPara("l")),
     TokenTable("t"), TextBox(<<Para(<<"w">>, 0)>>), TextBox(TokenPara("g"))}

Row(cells) == JArr([c \in 1..Len(cells) |-> JStr(<<cells[c]>>)])

PopFieldKinds ==
    {Member(Field("a"), JStr(<<"x">>)),
     Member(Field("a"), JStr(Token(Field("b")))),
     Member(Field("b"), JStr(<<"y">>)),
     Member(Field("b"), JStr(Token(Field("a")))),
     Member(Field("g"), JStr(<<"x">>)),
     Member(Field("l"), JArr(<<>>)),
     Member(Field("l"), JArr(<<JStr(<<"x">>)>>)),
     Member(Field("l"), JArr(<<JStr(<<"x">>), JNum("5")>>)),
     Member(Field("l"), JNum("5")),
     Member(Field("t"), JArr(<<>>)),
     Member(Field("t"), JArr(<<Row(<<"x">>)>>)),
     Member(Field("t"), JArr(<<Row(<<"x", "y", "z">>), Row(<<"u">>), Row(<<"v">>)>>))}

\* the fields of a request: a dict, so no key twice
PopFields ==
    {f \in SeqsUpTo(PopFieldKinds, MaxFields) :
        \A i, j \in 1..Len(f) : i # j => f[i].key # f[j].key}

\* line 383: placeholders_info
PlaceholdersInfo(metadata) ==
    IF Truthy(metadata) THEN DictGetOr(metadata, <<"placeholders">>, JObj(<<>>))
    ELSE JObj(<<>>)

PopInit ==
    /\ ParseIdle
    /\ CompIdle
    /\ svc = <<>>
    /\ calls = <<>>
    /\ unit = <<>>
    /\ pc = "populating"
    /\ \E shapes \in SeqsUpTo(PopShapeKinds, MaxShapes), fields \in PopFields :
          pop = [start |-> shapes, shapes |-> shapes, fields |-> fields,
                 metadata |-> PopMetadata, i |-> 0, exc |-> "none"]

PopulateStepWith(r) ==
    IF r.exc # "none"
    THEN /\ pop' = [pop EXCEPT !.exc = r.exc]
         /\ pc' = "populate_raised"
    ELSE /\ pop' = [pop EXCEPT !.shapes = r.shapes, !.i = @ + 1]
         /\ pc' = pc

\* lines 386-405, one field of the request
PopulateStep ==
    /\ pc = "populating"
    /\ pop.i < Len(pop.fields)
    /\ PopulateStepWith(PopulateField(pop.shapes, pop.fields[pop.i + 1],
                                      PlaceholdersInfo(pop.metadata)))
    /\ UNCHANGED <<parseVars, compVars, svc, calls, unit>>

\* the loop of line 386 is over: _populate_slide returns
PopulateReturn ==
    /\ pc = "populating"
    /\ pop.i = Len(pop.fields)
    /\ pc' = "populated"
    /\ UNCHANGED <<parseVars, compVars, auxVars>>

PopNext == PopulateStep \/ PopulateReturn

SpecPopulate == PopInit /\ [][PopNext]_vars

(***************************************************************************)
(* SpecPaths: DocumentService.generate_document naming the file of each    *)
(* request.  The clock counts seconds; str(uuid.uuid4()) is a string of    *)
(* two symbols, the first standing for its first eight characters and the  *)
(* second for the rest, and no identifier is drawn twice.                  *)
(***************************************************************************)
MaxRequests == 2
MaxClock == 2

\* self.extensions
Extensions == [word |-> <<".docx">>, excel |-> <<".xlsx">>, powerpoint |-> <<".pptx">>]

\* the files of settings.templates_dir
TemplatesDir == {<<"a", ".pptx">>, <<"b", ".pptx">>, <<"a", ".docx">>}

TemplateNames == {<<"a">>, <<"b">>}

DocumentTypes == {"powerpoint", "word"}

\* the values str(uuid.uuid4()) can give
Uuids == {<<"p", "r">>, <<"p", "s">>, <<"q", "r">>, <<"q", "s">>}

\* document_id[:8]
DocumentIdPrefix(document_id) == SubSeq(document_id, 1, 1)

Digits == <<"0", "1", "2", "3", "4", "5", "6", "7", "8", "9">>

\* datetime.now().strftime("%Y%m%d_%H%M%S"): the seconds, two digits
Strftime(now) == <<Digits[((now \div 10) % 10) + 1], Digits[(now % 10) + 1]>>

\* f"{request.template_name}_{timestamp}_{document_id[:8]}{template_ext}"
OutputFilename(template_name, timestamp, document_id, template_ext) ==
    template_name \o <<"_">> \o timestamp \o <<"_">>
        \o DocumentIdPrefix(document_id) \o template_ext

\* the identifiers uuid4 has given so far
DrawnIds == {svc.requests[i].document_id : i \in 1..Len(svc.requests)}

\* writing a file of the output directory replaces the one of the same name
WriteFile(output_dir, filename, document_id) ==
    {f \in output_dir : f.filename # filename}
        \cup {[filename |-> filename, document_id |-> document_id]}

PathsInit ==
    /\ ParseIdle
    /\ CompIdle
    /\ pop = <<>>
    /\ calls = <<>>
    /\ unit = <<>>
    /\ pc = "serving"
    /\ svc = [now |-> 0, requests |-> <<>>, output_dir |-> {}]

\* a second passes
Tick ==
    /\ pc = "serving"
    /\ svc.now < MaxClock
    /\ svc' = [svc EXCEPT !.now = @ + 1]
    /\ UNCHANGED <<pc, parseVars, compVars, pop, calls, unit>>

\* every template name is taken for the name of a file
AnyTemplateExists(template_name, template_ext) == TRUE

\* line 86: template_path.exists()
TemplateExists(template_name, template_ext) ==
    template_name \o template_ext \in TemplatesDir

\* main.py lines 81-82: a response without success is answered with 400
HttpStatus(success) == IF success THEN 200 ELSE 400

\* the response of generate_document and what the call did: the generator it
\* invoked ("none": no generator) and the output path it returned (<<>>: None)
Response(template_name, document_type, document_id, output_filename, success, message, generator, output_path) ==
    [template_name |-> template_name, document_type |-> document_type,
     document_id |-> document_id, output_filename |-> output_filename,
     success |-> success, message |-> message, generator |-> generator,
     output_path |-> output_path, status |-> HttpStatus(success)]

\* lines 74-135: one request, with the outcome of the generator it calls;
\* payload tells whether the request carries slides, fields or neither
GenerateDocumentWith(template_name, document_type, payload, document_id, outcome) ==
    LET template_ext == Extensions[document_type]
        timestamp == Strftime(svc.now)
        output_filename ==
            OutputFilename(template_name, timestamp, document_id, template_ext)
        generator == IF document_type = "powerpoint" /\ payload = "slides"
                     THEN "powerpoint_advanced_generator" ELSE document_type
    IN  IF ~TemplateExists(template_name, template_ext)
        THEN svc' = [svc EXCEPT !.requests = Append(@,
                        Response(template_name, document_type, <<>>, <<>>, FALSE,
                            <<"Template '">> \o template_name \o <<"' not found">>,
                            "none", <<>>))]
        ELSE IF generator = document_type /\ payload # "fields"
        THEN svc' = [svc EXCEPT !.requests = Append(@,
                        Response(template_name, document_type, document_id,
                            output_filename, FALSE,
                            <<"Either 'fields' or 'slides' must be provided">>,
                            "none", <<>>))]
        ELSE svc' = [svc EXCEPT
                        !.requests = Append(@,
                            Response(template_name, document_type, document_id,
                                output_filename, outcome = "saved",
                                IF outcome = "saved"
                                THEN <<"Document generated successfully">>
                                ELSE <<"Error generating document: ">>,
                                generator,
                                IF outcome = "saved" THEN output_filename ELSE <<>>)),
                        !.output_dir =
                            IF outcome = "raised_before_copy" THEN @
                            ELSE WriteFile(@, output_filename, document_id)]

\* POST /api/generate
GenerateDocument ==
    /\ pc = "serving"
    /\ Len(svc.requests) < MaxRequests
    /\ \E template_name \in TemplateNames, document_type \in DocumentTypes,
          payload \in {"slides", "fields", "none"},
          document_id \in Uuids \ DrawnIds,
          outcome \in {"saved", "raised_before_copy", "raised_after_copy"} :
          GenerateDocumentWith(template_name, document_type, payload,
                               document_id, outcome)
    /\ UNCHANGED <<pc, parseVars, compVars, pop, calls, unit>>

PathsNext == Tick \/ GenerateDocument

SpecPaths == PathsInit /\ [][PathsNext]_vars

(***************************************************************************)
(* SpecTwo: two calls of generate_from_slides on one template through the  *)
(* one generator instance of the service, their steps interleaved.  The    *)
(* generator has no attribute: every name of generate_from_slides is a     *)
(* local of the call.  The calls share the template, which they read, and  *)
(* the output directory, where each writes the file of its output_path.    *)
(***************************************************************************)
TwoTemplates == {<<TitleSlide, BodySlide>>, <<BodySlide, ListSlide>>, <<NumberSlide, TitleSlide>>}

\* requests of one spec, and of a title spec followed by a content spec
TwoRequests ==
    {s \in SeqsUpTo(SpecKinds, 2) :
        \/ Len(s) = 1
        \/ Len(s) = 2 /\ s[1].slide_type = <<"a">> /\ Len(s[2].fields) >= 2}

\* the locals of a call at line 93
CallStart(request, tmpl) ==
    [pc |-> IF tmpl # <<>> THEN "catalog" ELSE "resolve",
     slides_data |-> request, slide_type_map |-> <<>>, idx |-> 0,
     slides_to_build |-> <<>>, output_prs |-> <<>>, err |-> NoError]

CallRaise(l, e) == [l EXCEPT !.pc = "raised", !.err = e]

\* lines 97-107, one slide
CallCatalog(l, tmpl, r) ==
    IF r.exc # "none" THEN CallRaise(l, PyError(r.exc, "catalog"))
    ELSE [l EXCEPT !.slide_type_map = r.map,
                   !.idx = IF l.idx + 1 = Len(tmpl) THEN 0 ELSE l.idx + 1,
                   !.pc = IF l.idx + 1 < Len(tmpl) THEN "catalog" ELSE "resolve"]

\* lines 123-151 for the candidates of the requested type
CallResolveAmong(l, slide_spec, candidate_slides, sel) ==
    IF sel.exc # "none" THEN CallRaise(l, PyError(sel.exc, "resolve"))
    ELSE [l EXCEPT !.slides_to_build = Append(@,
                       [template_index |-> candidate_slides[sel.pos].index,
                        fields |-> slide_spec.fields,
                        metadata |-> candidate_slides[sel.pos].metadata]),
                   !.idx = IF l.idx + 1 = Len(l.slides_data) THEN 0 ELSE l.idx + 1,
                   !.pc = IF l.idx + 1 = Len(l.slides_data) THEN "copy" ELSE "resolve"]

\* lines 111-151, one slide spec; at is the position of its type in the catalog
CallResolve(l, slide_spec, at) ==
    IF at = 0
    THEN CallRaise(l, [exc |-> "ValueError", at |-> "resolve",
                       slide_type |-> slide_spec.slide_type,
                       available |-> MapKeys(l.slide_type_map)])
    ELSE CallResolveAmong(l, slide_spec, l.slide_type_map[at].entries,
             select_candidate(l.slide_type_map[at].entries, slide_spec.fields))

\* lines 155-166: the copy of the template is opened and emptied
CallCopy(l, tmpl) ==
    [l EXCEPT !.output_prs = <<>>, !.idx = 0,
              !.pc = IF l.slides_to_build = <<>> THEN "save" ELSE "add"]

\* lines 170-198 for the layout found (0: None)
CallAdd(l, build_info, matching_layout) ==
    IF matching_layout = 0 THEN CallRaise(l, PyError("ValueError", "add"))
    ELSE [l EXCEPT !.output_prs = Append(@,
                       NewSlide(matching_layout, build_info.template_index)),
                   !.pc = "copy_shapes"]

\* lines 201-204: the shapes and the placeholder texts of the template slide
CallCopyContent(l, source) ==
    [l EXCEPT !.output_prs[Len(l.output_prs)].shapes =
                  copy_placeholder_content(source, copy_slide_shapes(source, @), 1),
              !.pc = "populate"]

\* line 207
CallPopulate(l, r) ==
    IF r.exc # "none" THEN CallRaise(l, PyError(r.exc, "populate"))
    ELSE [l EXCEPT !.output_prs[Len(l.output_prs)].shapes = r.shapes,
                   !.idx = l.idx + 1,
                   !.pc = IF l.idx + 1 = Len(l.slides_to_build) THEN "save" ELSE "add"]

\* one step of a call on its locals
CallStep(l, tmpl) ==
    CASE l.pc = "catalog" ->
           CallCatalog(l, tmpl, catalog_slide(l.slide_type_map, l.idx, tmpl[l.idx + 1]))
      [] l.pc = "resolve" ->
           CallResolve(l, l.slides_data[l.idx + 1],
               MapFind(l.slide_type_map, JStr(l.slides_data[l.idx + 1].slide_type)))
      [] l.pc = "copy" -> CallCopy(l, tmpl)
      [] l.pc = "add" ->
           CallAdd(l, l.slides_to_build[l.idx + 1],
               resolve_layout(Layouts,
                   Layouts[tmpl[l.slides_to_build[l.idx + 1].template_index + 1].layout].name,
                   tmpl[l.slides_to_build[l.idx + 1].template_index + 1].layout - 1))
      [] l.pc = "copy_shapes" ->
           CallCopyContent(l, tmpl[l.slides_to_build[l.idx + 1].template_index + 1].shapes)
      [] l.pc = "populate" ->
           CallPopulate(l, populate_slide(l.output_prs[Len(l.output_prs)].shapes,
                                          l.slides_to_build[l.idx + 1].fields,
                                          l.slides_to_build[l.idx + 1].metadata))
      [] l.pc = "save" -> [l EXCEPT !.pc = "returned"]

\* the file at the call's output_path after the step: written by shutil.copy
\* (line 155) and by save (line 210)
FileAfter(l, tmpl, file) ==
    IF l.pc = "copy" THEN [exists |-> TRUE, slides |-> tmpl]
    ELSE IF l.pc = "save" THEN [exists |-> TRUE, slides |-> l.output_prs]
    ELSE file

CallEnded(l) == l.pc \in {"returned", "raised"}

\* every call writes the path of the first
SharedOutputPath(c) == 1

\* the output_path of call c: the calls are given different paths
OutputPathOf(c) == c

TwoInit ==
    /\ ParseIdle
    /\ pop = <<>>
    /\ svc = <<>>
    /\ unit = <<>>
    /\ pc = "two_calls"
    /\ template \in TwoTemplates
    /\ slides_data = <<>>
    /\ slide_type_map = <<>>
    /\ slide_types = <<>>
    /\ idx = 0
    /\ slides_to_build = <<>>
    /\ out_file = NoFile
    /\ output_prs = <<>>
    /\ err = NoError
    /\ \E r1 \in TwoRequests, r2 \in TwoRequests :
          calls = [local |-> <<CallStart(r1, template), CallStart(r2, template)>>,
                   output_dir |-> <<NoFile, NoFile>>]

\* call c takes its next step
StepCall(c) ==
    /\ pc = "two_calls"
    /\ ~CallEnded(calls.local[c])
    /\ calls' = [calls EXCEPT
                    !.local[c] = CallStep(@, template),
                    !.output_dir[OutputPathOf(c)] =
                        FileAfter(calls.local[c], template, @)]
    /\ UNCHANGED <<pc, parseVars, compVars, pop, svc, unit>>

TwoNext == StepCall(1) \/ StepCall(2)

SpecTwo == TwoInit /\ [][TwoNext]_vars

\* the result of a call that runs alone: how it ends, its error, its file
RECURSIVE RunAlone(_, _, _)
RunAlone(l, tmpl, file) ==
    IF CallEnded(l) THEN [pc |-> l.pc, err |-> l.err, file |-> file]
    ELSE RunAlone(CallStep(l, tmpl), tmpl, FileAfter(l, tmpl, file))

(***************************************************************************)
(* SpecLayout: the layout of one new slide, lines 173-198, for any layouts *)
(* of the output, any layout name of the template slide and any position   *)
(* of that layout among the layouts of the template.  Line 185 asks the    *)
(* parent of the layout's element for the element's index inside a try     *)
(* block; whether that succeeds depends on the XML tree python-pptx hands  *)
(* out, so both outcomes are taken.                                        *)
(***************************************************************************)
MaxLayouts == 3

LayoutNames == {"X", "Y", "Z"}

LayoutInit ==
    /\ ParseIdle
    /\ CompIdle
    /\ pop = <<>>
    /\ svc = <<>>
    /\ calls = <<>>
    /\ pc = "layout"
    /\ \E names \in SeqsUpTo(LayoutNames, MaxLayouts), layout_name \in LayoutNames,
          position \in 0..(MaxLayouts - 1) :
          unit = [output_layouts |-> [i \in 1..Len(names) |-> [name |-> names[i]]],
                  layout_name |-> layout_name, position |-> position,
                  layout_idx |-> IndexRaised, matching_layout |-> 0,
                  slides |-> <<>>, error |-> <<>>]

\* lines 174-192
ResolveLayout ==
    /\ pc = "layout"
    /\ \E layout_idx \in {unit.position, IndexRaised} :
          unit' = [unit EXCEPT
                      !.layout_idx = layout_idx,
                      !.matching_layout =
                          resolve_layout(unit.output_layouts, unit.layout_name,
                                         layout_idx)]
    /\ pc' = "layout_resolved"
    /\ UNCHANGED <<parseVars, compVars, pop, svc, calls>>

\* lines 194-198: the error names the layout, or the slide is added
AddToLayout ==
    /\ pc = "layout_resolved"
    /\ IF unit.matching_layout = 0
       THEN /\ unit' = [unit EXCEPT !.error =
                           <<"Could not find matching layout for '",
                             unit.layout_name, "'">>]
            /\ pc' = "layout_raised"
       ELSE /\ unit' = [unit EXCEPT !.slides = Append(@, unit.matching_layout)]
            /\ pc' = "layout_added"
    /\ UNCHANGED <<parseVars, compVars, pop, svc, calls>>

LayoutNext == ResolveLayout \/ AddToLayout

SpecLayout == LayoutInit /\ [][LayoutNext]_vars

(***************************************************************************)
(* SpecCopy: one call of _copy_slide_shapes on a source slide whose shapes *)
(* are drawn from the kinds below, into a new slide without placeholders.  *)
(***************************************************************************)
CopyShapeKinds ==
    {At(Picture("logo"), "p1"),
     At(LinkedPicture("web"), "p2"),
     At(TextBox(<<Para(<<"w">>, 0)>>), "p2"),
     Styled(At(AutoShape(<<Para(<<"t">>, 0)>>), "p1"), "rect", "rgb"),
     Styled(At(AutoShape(<<Para(<<"u">>, 0)>>), "p2"), "oval", "theme"),
     Styled(At(AutoShape(<<Para(<<"v">>, 0)>>), "p3"), "oval", "none"),
     Styled(AutoShape(EmptyFrame), "rect", "rgb"),
     Styled(AutoShape(<<Para(<<" ">>, 0)>>), "rect", "rgb"),
     Connector,
     TextPlaceholder(0, <<Para(<<"h">>, 0)>>),
     TokenTable("t")}

CopyInit ==
    /\ ParseIdle
    /\ CompIdle
    /\ pop = <<>>
    /\ svc = <<>>
    /\ calls = <<>>
    /\ pc = "copying"
    /\ \E source \in SeqsUpTo(CopyShapeKinds, MaxShapes) :
          unit = [source |-> source, target |-> <<>>]

\* _copy_slide_shapes(source_slide, target_slide)
CopySlideShapes ==
    /\ pc = "copying"
    /\ unit' = [unit EXCEPT !.target = copy_slide_shapes(unit.source, @)]
    /\ pc' = "shapes_copied"
    /\ UNCHANGED <<parseVars, compVars, pop, svc, calls>>

SpecCopy == CopyInit /\ [][CopySlideShapes]_vars

(***************************************************************************)
(* SpecSimple: PowerPointAdvancedGenerator.generate, the simple path: the  *)
(* fields of the request are replaced on every slide of the template, a    *)
(* slide per step, and the presentation is saved.                          *)
(***************************************************************************)
SimpleSlideKinds ==
    {<<TextBox(TokenPara("a"))>>,
     <<TextBox(TokenPara("a")), TextBox(<<Para(<<"w">>, 0)>>)>>,
     <<TextBox(<<Para(<<"w", "{{", "b", "}}">>, 0)>>), TokenTable("a")>>,
     <<TextBox(<<Para(<<"{{", "z", "}}">>, 0)>>)>>}

SimpleFieldKinds ==
    {<<Member(Field("a"), JStr(<<"x">>))>>,
     <<Member(Field("a"), JNum("5")), Member(Field("b"), JStr(<<"y">>))>>,
     <<Member(Field("b"), JStr(<<"y">>))>>}

\* lines 557-559: every field of the request, in order, on one slide
RECURSIVE ReplaceFields(_, _, _)
ReplaceFields(shapes, fields, i) ==
    IF i > Len(fields) THEN shapes
    ELSE ReplaceFields(
            replace_text_in_slide(shapes, Token(fields[i].key), PyStr(fields[i].val)),
            fields, i + 1)

\* lines 555-559 for one slide
generate_slide(shapes, fields) ==
    ReplaceFields(replace_text_in_slide(shapes, <<"{{">>, <<"}}">>), fields, 1)

SimpleInit ==
    /\ ParseIdle
    /\ CompIdle
    /\ pop = <<>>
    /\ svc = <<>>
    /\ calls = <<>>
    /\ pc = "generate"
    /\ \E slides \in SeqsUpTo(SimpleSlideKinds, MaxSlides), fields \in SimpleFieldKinds :
          unit = [template |-> slides, prs |-> slides, fields |-> fields,
                  i |-> 0, output |-> <<>>]

\* lines 554-559, one slide
GenerateSlide ==
    /\ pc = "generate"
    /\ unit.i < Len(unit.prs)
    /\ unit' = [unit EXCEPT !.prs[unit.i + 1] = generate_slide(@, unit.fields),
                            !.i = @ + 1]
    /\ pc' = pc
    /\ UNCHANGED <<parseVars, compVars, pop, svc, calls>>

\* lines 561-562
SaveGenerated ==
    /\ pc = "generate"
    /\ unit.i = Len(unit.prs)
    /\ unit' = [unit EXCEPT !.output = unit.prs]
    /\ pc' = "generated"
    /\ UNCHANGED <<parseVars, compVars, pop, svc, calls>>

SimpleNext == GenerateSlide \/ SaveGenerated

SpecSimple == SimpleInit /\ [][SimpleNext]_vars

(***************************************************************************)
(* SpecAgree: get_template_slide_types and the catalog loop of             *)
(* generate_from_slides, run one after the other on the same template.     *)
(* unit is [template, idx, slide_types, query_exc, slide_type_map,         *)
(* catalog_exc].                                                           *)
(***************************************************************************)
\* an annotation whose slide_type is a JSON list
ListTypedSlide ==
    TemplateSlide(
        Notes(JsonDumps(JObj(<<Member(<<"slide_type">>, JArr(<<JStr(<<"a">>)>>))>>))),
        2, <<>>)

\* an annotation whose slide_type is null
NullTypedSlide ==
    TemplateSlide(
        Notes(JsonDumps(JObj(<<Member(<<"slide_type">>, JNone)>>))), 2, <<>>)

AgreeSlideKinds ==
    {TitleSlide, BodySlide, ListSlide, SpeakerSlide, UntypedSlide, NumberSlide,
     ListTypedSlide, NullTypedSlide}

AgreeInit ==
    /\ ParseIdle
    /\ CompIdle
    /\ pop = <<>>
    /\ svc = <<>>
    /\ calls = <<>>
    /\ pc = "query_all"
    /\ \E t \in SeqsUpTo(AgreeSlideKinds, MaxSlides) :
          unit = [template |-> t, idx |-> 0, slide_types |-> <<>>,
                  query_exc |-> "none", slide_type_map |-> <<>>,
                  catalog_exc |-> "none"]

QuerySlideWith(r) ==
    unit' = [unit EXCEPT !.slide_types = r.list, !.query_exc = r.exc,
                         !.idx = unit.idx + 1]

\* get_template_slide_types lines 51-60, one slide
QuerySlide ==
    /\ pc = "query_all"
    /\ unit.idx < Len(unit.template)
    /\ unit.query_exc = "none"
    /\ QuerySlideWith(query_slide(unit.slide_types, unit.idx,
                                  unit.template[unit.idx + 1]))
    /\ UNCHANGED <<pc, parseVars, compVars, pop, svc, calls>>

\* get_template_slide_types line 62, or the exception leaves the method;
\* generate_from_slides then opens the same template (lines 93-96)
QueryEnds ==
    /\ pc = "query_all"
    /\ unit.idx = Len(unit.template) \/ unit.query_exc # "none"
    /\ pc' = "catalog_all"
    /\ unit' = [unit EXCEPT !.idx = 0]
    /\ UNCHANGED <<parseVars, compVars, pop, svc, calls>>

CatalogSlideWith(r) ==
    unit' = [unit EXCEPT !.slide_type_map = r.map, !.catalog_exc = r.exc,
                         !.idx = unit.idx + 1]

\* generate_from_slides lines 97-107, one slide
CatalogSlide ==
    /\ pc = "catalog_all"
    /\ unit.idx < Len(unit.template)
    /\ unit.catalog_exc = "none"
    /\ CatalogSlideWith(catalog_slide(unit.slide_type_map, unit.idx,
                                      unit.template[unit.idx + 1]))
    /\ UNCHANGED <<pc, parseVars, compVars, pop, svc, calls>>

\* the catalog loop is over, or the exception leaves generate_from_slides
CatalogEnds ==
    /\ pc = "catalog_all"
    /\ unit.idx = Len(unit.template) \/ unit.catalog_exc # "none"
    /\ pc' = "agreed"
    /\ UNCHANGED <<parseVars, compVars, pop, svc, calls, unit>>

\* generate_from_slides lines 110-119 for a spec of this type: the type is
\* looked up in the finished catalog
Accepts(slide_type) ==
    /\ unit.catalog_exc = "none"
    /\ Hashable(slide_type)
    /\ MapFind(unit.slide_type_map, slide_type) # 0

AgreeNext == QuerySlide \/ QueryEnds \/ CatalogSlide \/ CatalogEnds

SpecAgree == AgreeInit /\ [][AgreeNext]_vars

(***************************************************************************)
(* The vocabulary of the properties: what a template declares, read off    *)
(* its slides one by one, and what a request asks for.                     *)
(***************************************************************************)
Range(t) == {t[i] : i \in 1..Len(t)}

\* the metadata a template slide declares (JNone: the slide is untyped)
DeclaredMetadata(slide) ==
    LET r == parse_slide_metadata(slide.notes)
    IN  IF r.exc = "none" /\ r.val.k = "obj" /\ HasKey(r.val, <<"slide_type">>)
        THEN r.val ELSE JNone

DeclaredType(slide) ==
    LET metadata == DeclaredMetadata(slide)
    IN  IF metadata = JNone THEN JNone ELSE DictGet(metadata, <<"slide_type">>)

\* the slide types of the template's catalog
DeclaredTypes == {DeclaredType(template[i]) : i \in 1..Len(template)} \ {JNone}

\* the template indexes (from 0) of the slides that declare the type
CandidateIndexes(slide_type) ==
    {i \in 0..(Len(template) - 1) : DeclaredType(template[i + 1]) = JStr(slide_type)}

\* the catalog candidates of the spec's slide_type, in catalog order
Candidates(spec) ==
    IF MapFind(slide_type_map, JStr(spec.slide_type)) = 0 THEN <<>>
    ELSE slide_type_map[MapFind(slide_type_map, JStr(spec.slide_type))].entries

\* the number of placeholder names the candidate declares that the spec requests
Overlap(candidate, spec) ==
    Cardinality(
        KeySet(DictGetOr(candidate.metadata, <<"placeholders">>, JObj(<<>>)).m)
          \cap {spec.fields[j].key : j \in 1..Len(spec.fields)})

\* the template indexes of the candidates of the spec with the highest overlap
BestCandidates(spec) ==
    {c.index : c \in {d \in Range(Candidates(spec)) :
                         \A e \in Range(Candidates(spec)) :
                            Overlap(e, spec) <= Overlap(d, spec)}}

\* a call of generate_from_slides has ended, by a return or by an exception
ComposeEnded == pc = "returned" \/ (pc = "raised" /\ err.at # "query")

\* the words of a field value, of a spec, of a slide
ValueWords(v) ==
    IF v.k = "arr" THEN UNION {Range(v.m[i].val.s) : i \in 1..Len(v.m)}
    ELSE Range(v.s)

SpecWords(spec) == UNION {ValueWords(spec.fields[j].val) : j \in 1..Len(spec.fields)}

RequestWords == UNION {SpecWords(spec) : spec \in SpecKinds}

SlideWords(slide) ==
    UNION {UNION {Range(slide.shapes[n].paras[q].text) :
                     q \in 1..Len(slide.shapes[n].paras)} :
              n \in 1..Len(slide.shapes)}

\* the slide holds the token of the field
HasToken(slide, field_name) ==
    \E n \in 1..Len(slide.shapes) :
        /\ slide.shapes[n].paras # <<>>
        /\ Contains(FrameText(slide.shapes[n]), Token(field_name))

(***************************************************************************)
(* Properties of the composition (Spec).                                   *)
(***************************************************************************)
\* C1: whenever every slide_type of the request occurs in the template's
\* catalog, generate_from_slides succeeds, the saved output has exactly
\* len(S) slides, output slide i is built from a template slide that
\* declares S[i].slide_type, and no original slide of the template survives.
C1_ComposesEveryResolvableRequest ==
    (/\ ComposeEnded
     /\ \A i \in 1..Len(slides_data) : JStr(slides_data[i].slide_type) \in DeclaredTypes)
    => /\ pc = "returned"
       /\ out_file.exists
       /\ Len(out_file.slides) = Len(slides_data)
       /\ \A i \in 1..Len(out_file.slides) :
             out_file.slides[i].built_from \in
                 CandidateIndexes(slides_data[i].slide_type)

\* C2: whenever a spec of the request names a slide_type absent from the
\* catalog, generate_from_slides raises the type-not-found error before the
\* template is copied or an output slide is created; the error names the
\* requested type and lists every slide_type of the catalog.
C2_UnknownTypeFailsBeforeAnyWrite ==
    (/\ ComposeEnded
     /\ \E i \in 1..Len(slides_data) : JStr(slides_data[i].slide_type) \notin DeclaredTypes)
    => /\ pc = "raised"
       /\ err.exc = "ValueError"
       /\ err.at = "resolve"
       /\ JStr(err.slide_type) \notin DeclaredTypes
       /\ \E i \in 1..Len(slides_data) : slides_data[i].slide_type = err.slide_type
       /\ Range(err.available) = DeclaredTypes
       /\ ~out_file.exists
       /\ output_prs = <<>>

\* C3: whenever a composition call has aborted with an exception, the call
\* has left no file at the output path.
C3_NoFileAfterAbort ==
    (pc = "raised" /\ err.at # "query") => ~out_file.exists

\* C4: when several candidates of the requested type have the same highest
\* overlap (0 included), the selector takes the first of them in template
\* order, and equal specs of one request get the same candidate.
C4_TieGoesToFirstCandidate ==
    \A n \in 1..Len(slides_to_build) :
        /\ Cardinality(BestCandidates(slides_data[n])) >= 2
              => \A i \in BestCandidates(slides_data[n]) :
                    slides_to_build[n].template_index <= i
        /\ \A m \in 1..Len(slides_to_build) :
              slides_data[m] = slides_data[n]
                 => slides_to_build[m].template_index = slides_to_build[n].template_index

\* a tie between two candidates has been settled, once with every candidate at 0
C4_Witness ==
    /\ pc = "returned"
    /\ \E n \in 1..Len(slides_to_build) :
          /\ Cardinality(BestCandidates(slides_data[n])) >= 2
          /\ slides_to_build[n].template_index = 0
          /\ \A c \in Range(Candidates(slides_data[n])) : Overlap(c, slides_data[n]) = 0

\* C5: the selector returns a candidate of the requested type whose overlap
\* with the requested field names is the highest among the candidates,
\* wherever that candidate stands in the template.
C5_SelectsHighestOverlap ==
    \A n \in 1..Len(slides_to_build) :
        slides_to_build[n].template_index \in BestCandidates(slides_data[n])

\* the second of two candidates has been selected, for its higher overlap
C5_Witness ==
    /\ pc = "returned"
    /\ \E n \in 1..Len(slides_to_build) :
          /\ Len(Candidates(slides_data[n])) = 2
          /\ slides_to_build[n].template_index = Candidates(slides_data[n])[2].index
          /\ Overlap(Candidates(slides_data[n])[2], slides_data[n]) = 3
          /\ Overlap(Candidates(slides_data[n])[1], slides_data[n]) = 1

\* C6: after a composition, output slide i is built from a template slide
\* of the type of spec i (so a type requested k times has k output slides,
\* and a type not requested has none); every output slide carries the
\* values of its own spec whose token the template slide holds, and no
\* value of another spec.
C6_EachCopyCarriesItsOwnValues ==
    pc = "returned" =>
        /\ Len(out_file.slides) = Len(slides_data)
        /\ \A i \in 1..Len(out_file.slides) :
              /\ DeclaredType(template[out_file.slides[i].built_from + 1])
                    = JStr(slides_data[i].slide_type)
              /\ SlideWords(out_file.slides[i]) \cap RequestWords
                    \subseteq SpecWords(slides_data[i])
              /\ \A j \in 1..Len(slides_data[i].fields) :
                    HasToken(template[out_file.slides[i].built_from + 1],
                             slides_data[i].fields[j].key)
                       => ValueWords(slides_data[i].fields[j].val)
                             \subseteq SlideWords(out_file.slides[i])

\* one type requested twice with different values, another type left out
C6_Witness ==
    /\ pc = "returned"
    /\ Len(out_file.slides) = 2
    /\ slides_data[1].slide_type = slides_data[2].slide_type
    /\ out_file.slides[1].built_from = out_file.slides[2].built_from
    /\ "H1" \in SlideWords(out_file.slides[1])
    /\ "H2" \in SlideWords(out_file.slides[2])
    /\ \E t \in DeclaredTypes : t # JStr(slides_data[1].slide_type)

\* C10: building the catalog never raises because of an annotation, in
\* generate_from_slides and in get_template_slide_types: the slides without
\* a slide_type key are skipped and every other slide is in the bucket of
\* its slide_type.
C10_CatalogNeverFails ==
    /\ err.at \notin {"catalog", "query"}
    /\ pc \in {"resolve", "copy"} =>
          \A i \in 0..(Len(template) - 1) :
             \A t \in DeclaredTypes :
                (DeclaredType(template[i + 1]) = t)
                   <=> \E b \in 1..Len(slide_type_map) :
                          /\ slide_type_map[b].key = t
                          /\ \E e \in 1..Len(slide_type_map[b].entries) :
                                slide_type_map[b].entries[e].index = i
    /\ pc = "listed" =>
          {slide_types[n].slide_index : n \in 1..Len(slide_types)}
             = {i \in 0..(Len(template) - 1) : DeclaredType(template[i + 1]) # JNone}

\* the template slide an output slide is built from
SourceOf(slide) == template[slide.built_from + 1]

\* the template slide declares scalar fields only, holds a text box with the
\* token of each, and the spec supplies a plain string for each of them
PlainScalarCase(source, spec) ==
    LET declared == DictGetOr(DeclaredMetadata(source), <<"placeholders">>, JObj(<<>>)).m
    IN  /\ declared # <<>>
        /\ \A d \in 1..Len(declared) :
              /\ DictGetOr(declared[d].val, <<"type">>, JStr(<<"text">>))
                    \in {JStr(<<"text">>), JStr(<<"paragraph">>)}
              /\ \E n \in 1..Len(source.shapes) :
                    /\ source.shapes[n].kind = "textbox"
                    /\ Contains(FrameText(source.shapes[n]), Token(declared[d].key))
              /\ \E j \in 1..Len(spec.fields) :
                    /\ spec.fields[j].key = declared[d].key
                    /\ spec.fields[j].val.k = "str"
                    /\ {"{{", "}}"} \cap Range(spec.fields[j].val.s) = {}

\* C15: when every selected template slide holds one text box per declared
\* scalar field with its token and the request supplies a plain string for
\* every declared field, output slide i contains every value of spec i and
\* no output slide holds a {{...}} text.
C15_EndToEndNoTokenRemains ==
    (/\ pc = "returned"
     /\ \A i \in 1..Len(out_file.slides) :
           PlainScalarCase(SourceOf(out_file.slides[i]), slides_data[i]))
    => \A i \in 1..Len(out_file.slides) :
          /\ SpecWords(slides_data[i]) \subseteq SlideWords(out_file.slides[i])
          /\ {"{{", "}}"} \cap SlideWords(out_file.slides[i]) = {}

\* two slides composed from text boxes, their values in place
C15_Witness ==
    /\ pc = "returned"
    /\ Len(out_file.slides) = 2
    /\ \A i \in 1..2 : PlainScalarCase(SourceOf(out_file.slides[i]), slides_data[i])
    /\ {"H1", "B"} \subseteq SlideWords(out_file.slides[2])

\* C16: every table of the selected template slide that is no placeholder is
\* on the composed output slide with its grid of cells, and a table field
\* whose token sits in a cell of it is filled in the output.
C16_TablesAreCopied ==
    pc = "returned" =>
        \A i \in 1..Len(out_file.slides) :
           \A n \in 1..Len(SourceOf(out_file.slides[i]).shapes) :
              SourceOf(out_file.slides[i]).shapes[n].kind = "table"
                 => \E m \in 1..Len(out_file.slides[i].shapes) :
                       /\ out_file.slides[i].shapes[m].kind = "table"
                       /\ Len(out_file.slides[i].shapes[m].cells)
                            = Len(SourceOf(out_file.slides[i]).shapes[n].cells)
                       /\ \A j \in 1..Len(slides_data[i].fields) :
                             TableContains(SourceOf(out_file.slides[i]).shapes[n].cells,
                                           Token(slides_data[i].fields[j].key))
                                => ~TableContains(out_file.slides[i].shapes[m].cells,
                                                  Token(slides_data[i].fields[j].key))

\* the shape of the source has its copy on the new slide
CopiedTo(sh, shapes) ==
    \E m \in 1..Len(shapes) :
        /\ shapes[m].kind = sh.kind
        /\ shapes[m].img = sh.img
        /\ sh.paras # <<>> => Contains(FrameText(shapes[m]), FrameText(sh))

C18_TemplateIsReadOnly == [][template' = template]_vars

\* a composition has saved an output that differs from the template
C18_Witness ==
    /\ pc = "returned"
    /\ template # <<>>
    /\ out_file.slides # <<>>
    /\ out_file.slides # template

\* C19: any two requests of generate_document, those for one template
\* within one second included, are given different output file names.
C19_OutputPathsAreDistinct ==
    \A i \in 1..Len(svc.requests), j \in 1..Len(svc.requests) :
        (/\ i # j
         /\ svc.requests[i].output_filename # <<>>
         /\ svc.requests[j].output_filename # <<>>)
        => svc.requests[i].output_filename # svc.requests[j].output_filename

MissingTemplateAnswered ==
    /\ pc = "serving"
    /\ Len(svc'.requests) = Len(svc.requests) + 1
    /\ svc'.requests[Len(svc'.requests)].template_name
          \o Extensions[svc'.requests[Len(svc'.requests)].document_type]
             \notin TemplatesDir

\* C21: a request for a template name without a template file is answered
\* with success false, a message naming the template, no output path and
\* status 400; no generator is invoked and no file of the output directory
\* is created or changed.
C21_MissingTemplateIsRefused ==
    [][MissingTemplateAnswered =>
          /\ svc'.requests[Len(svc'.requests)].success = FALSE
          /\ Contains(svc'.requests[Len(svc'.requests)].message,
                      svc'.requests[Len(svc'.requests)].template_name)
          /\ svc'.requests[Len(svc'.requests)].output_path = <<>>
          /\ svc'.requests[Len(svc'.requests)].status = 400
          /\ svc'.requests[Len(svc'.requests)].generator = "none"
          /\ svc'.output_dir = svc.output_dir]_vars

\* a request for ("b", word), which has no file, was refused after another
\* request had written its file
C21_Witness ==
    /\ pc = "serving"
    /\ svc.output_dir # {}
    /\ Len(svc.requests) = 2
    /\ svc.requests[2].template_name = <<"b">>
    /\ svc.requests[2].document_type = "word"
    /\ svc.requests[2].status = 400
    /\ svc.requests[2].generator = "none"

\* the steps between add_slide and the end of _populate_slide
Building == pc \in {"add", "copy_shapes", "copy_placeholders", "populate"}

\* one step of a composition keeps the single-pass order
SinglePassStep ==
    /\ slide_type_map' # slide_type_map =>
          /\ pc = "catalog"
          /\ slides_to_build' = <<>>
          /\ ~out_file'.exists
    /\ slides_to_build' # slides_to_build =>
          /\ pc = "resolve"
          /\ ~out_file'.exists
          /\ output_prs' = <<>>
    /\ (out_file'.exists /\ ~out_file.exists) =>
          /\ pc = "copy"
          /\ Len(slides_to_build) = Len(slides_data)
    /\ pc' = "copy_shapes" =>
          /\ pc = "add"
          /\ idx = Len(output_prs)
          /\ Len(output_prs') = idx + 1
    /\ pc' = "copy_placeholders" => pc = "copy_shapes"
    /\ pc' = "populate" => pc = "copy_placeholders"
    /\ pc = "populate" => Len(output_prs) = idx + 1
    /\ Building =>
          /\ idx' \in {idx, idx + 1}
          /\ idx' = idx + 1 => (pc = "populate" /\ pc' \in {"add", "save"})
          /\ \A i \in 1..idx : output_prs'[i] = output_prs[i]
    /\ out_file' # out_file => pc \in {"copy", "save"}
    /\ pc' = "returned" =>
          /\ pc = "save"
          /\ idx = Len(slides_to_build)
          /\ Len(output_prs) = Len(slides_to_build)
          /\ out_file'.slides = output_prs
    /\ pc # "returned"

\* C22: a composition is one pass: the catalog is built before any
\* selection, every spec is selected before the output file is created, a
\* slide is created, given its shapes and its placeholder texts and only
\* then populated, slide i is populated before slide i+1 is created and is
\* not touched again, and the document is saved once, after the last slide.
C22_SinglePassOrder == [][SinglePassStep]_vars

\* a composition of two slides from a catalog of two types has returned
C22_Witness ==
    /\ pc = "returned"
    /\ idx = 2
    /\ Len(slide_type_map) = 2
    /\ Len(out_file.slides) = 2
    /\ out_file.slides[1].built_from # out_file.slides[2].built_from

\* one step of the deletion loop and the steps around it
DeletionStep ==
    /\ pc = "copy" =>
          /\ pc' = "delete" <=> output_prs' # <<>>
          /\ pc' = "delete" => idx' = Len(output_prs') - 1
    /\ pc = "delete" =>
          /\ idx \in 0..(Len(output_prs) - 1)
          /\ idx = Len(output_prs) - 1
          /\ output_prs' = SubSeq(output_prs, 1, Len(output_prs) - 1)
          /\ pc' = "delete" <=> idx > 0
          /\ pc' = "delete" => idx' = idx - 1
    /\ pc' = "reload" => output_prs' = <<>>
    /\ pc = "reload" => output_prs = <<>>

\* C23: the deletion loop on the copy of the template visits the indexes
\* from the last slide down to 0, each of them an index of the slide list at
\* that moment, and ends with no slide (and no slide relationship) left, for
\* a template of any number of slides, before the first slide is added.
C23_DeletionEmptiesTheCopy == [][DeletionStep]_vars

\* the copy of a template of two slides has been emptied
C23_Witness ==
    /\ pc = "reload"
    /\ Len(template) = 2
    /\ out_file.slides = template
    /\ output_prs = <<>>

(***************************************************************************)
(* Properties of the Metadata Extractor (SpecParse).                       *)
(***************************************************************************)
\* C7: parsing the serialised form of a well-formed metadata value written
\* into the notes returns a value equal to it, typographic quotes inside
\* its strings included.
C7_RoundTrip ==
    pc = "parsed" /\ origin \in {"dumped", "typed"} => parsed = Returned(meta_in)

\* C8: once the straight double quotes of a serialised annotation are
\* replaced by typographic ones, parse_slide_metadata returns what it
\* returns for the annotation as written, and that is the metadata whenever
\* the annotation as written parses to it.
C8_AutoCorrectedParsesTheSame ==
    pc = "parsed_corrected" =>
        /\ parsed = parse_slide_metadata(Notes(Serialized(meta_in, origin)))
        /\ origin = "dumped" => parsed = Returned(meta_in)

\* an annotation with a placeholder, all its quotes curled, parsed to the metadata
C8_Witness ==
    /\ pc = "parsed_corrected"
    /\ "LDQ" \in Range(notes_in.text)
    /\ "RDQ" \in Range(notes_in.text)
    /\ "DQ" \notin Range(notes_in.text)
    /\ parsed = Returned(meta_in)
    /\ DictGet(meta_in, <<"placeholders">>).m # <<>>

\* C9: parse_slide_metadata raises nothing; it returns null for a slide
\* without notes, with blank notes or with notes that do not parse, and for
\* every notes text null or the parsed value.
C9_NeverRaises ==
    pc = "parsed" /\ origin = "raw" =>
        /\ parsed.exc = "none"
        /\ ~notes_in.has \/ Strip(notes_in.text) = <<>> => parsed.val = JNone
        /\ notes_in.has /\ Strip(notes_in.text) # <<>> =>
              parsed.val = IF JsonLoads(NormalizeQuotes(Strip(notes_in.text))).ok
                           THEN JsonLoads(NormalizeQuotes(Strip(notes_in.text))).val
                           ELSE JNone

(***************************************************************************)
(* Properties of the Field Populator (SpecPopulate).                       *)
(***************************************************************************)
\* some shape holds the token of the field, in its text frame or in a cell
TokenInShapes(shapes, field_name) ==
    \E n \in 1..Len(shapes) :
        \/ HasTextFrame(shapes[n]) /\ Contains(FrameText(shapes[n]), Token(field_name))
        \/ HasTable(shapes[n]) /\ TableContains(shapes[n].cells, Token(field_name))

\* the type the metadata declares for the field ("text" when it declares none)
FieldType(metadata, field_name) ==
    DictGetOr(DictGetOr(PlaceholdersInfo(metadata), field_name, JObj(<<>>)),
              <<"type">>, JStr(<<"text">>)).s[1]

\* _populate_slide has just populated the field at position pop.i + 1
FieldPopulated ==
    pc = "populating" /\ pop.i < Len(pop.fields) /\ pop'.i = pop.i + 1

\* C11: once the token of a scalar field that was processed is absent from
\* the slide, no later step of the population brings it back.
C11_SubstitutedTokenStaysAbsent ==
    [][\A j \in 1..pop.i :
          (/\ FieldType(pop.metadata, pop.fields[j].key) \in {"text", "paragraph"}
           /\ ~TokenInShapes(pop.shapes, pop.fields[j].key))
          => ~TokenInShapes(pop'.shapes, pop.fields[j].key)]_vars

\* C12: after a list field is populated with a sequence of items, the first
\* shape that held its token has exactly len(items) paragraphs, paragraph i
\* with the text str(items[i]) at level 0, and the token is gone.
C12_ListFieldBecomesItsItems ==
    [][(/\ FieldPopulated
        /\ FieldType(pop.metadata, pop.fields[pop.i + 1].key) = "list"
        /\ pop.fields[pop.i + 1].val.k = "arr"
        /\ FirstTextShape(pop.shapes, Token(pop.fields[pop.i + 1].key)) # 0)
       => /\ Len(pop'.shapes[FirstTextShape(pop.shapes,
                     Token(pop.fields[pop.i + 1].key))].paras)
               = Len(pop.fields[pop.i + 1].val.m)
          /\ \A q \in 1..Len(pop.fields[pop.i + 1].val.m) :
                pop'.shapes[FirstTextShape(pop.shapes,
                     Token(pop.fields[pop.i + 1].key))].paras[q]
                  = Para(PyStr(pop.fields[pop.i + 1].val.m[q].val), 0)
          /\ ~Contains(FrameText(pop'.shapes[FirstTextShape(pop.shapes,
                          Token(pop.fields[pop.i + 1].key))]),
                       Token(pop.fields[pop.i + 1].key))]_vars

\* the cell (r, c) of the table after the grid was written into it
CellAfter(cells, grid, token, r, c) ==
    IF r <= Len(grid) /\ c <= Len(grid[r].val.m)
    THEN PyStr(grid[r].val.m[c].val)
    ELSE Replace(cells[r][c], token, <<>>)

\* C13: populating a table field with a grid leaves the table with its rows
\* and columns: the cells (r, c) inside the table that the grid covers hold
\* str(grid[r][c]), the other cells keep their text (less the token), the
\* surplus of the grid is dropped and nothing is raised.
C13_TableKeepsItsBounds ==
    [][(/\ pc = "populating" /\ pop.i < Len(pop.fields)
        /\ FieldType(pop.metadata, pop.fields[pop.i + 1].key) = "table"
        /\ pop.fields[pop.i + 1].val.k = "arr"
        /\ pop.fields[pop.i + 1].val.m # <<>>
        /\ FirstTable(pop.shapes, Token(pop.fields[pop.i + 1].key)) # 0)
       => /\ pop'.exc = "none"
          /\ Len(pop'.shapes) = Len(pop.shapes)
          /\ \A n \in 1..Len(pop.shapes) :
                IF n = FirstTable(pop.shapes, Token(pop.fields[pop.i + 1].key))
                THEN /\ Len(pop'.shapes[n].cells) = Len(pop.shapes[n].cells)
                     /\ \A r \in 1..Len(pop.shapes[n].cells) :
                           /\ Len(pop'.shapes[n].cells[r]) = Len(pop.shapes[n].cells[r])
                           /\ \A c \in 1..Len(pop.shapes[n].cells[r]) :
                                 pop'.shapes[n].cells[r][c]
                                   = CellAfter(pop.shapes[n].cells,
                                               pop.fields[pop.i + 1].val.m,
                                               Token(pop.fields[pop.i + 1].key), r, c)
                ELSE pop'.shapes[n] = pop.shapes[n]]_vars

\* a grid of three rows, the first of three cells, went into a table of two
\* rows and two columns
C13_Witness ==
    /\ pc = "populated"
    /\ pop.start = <<TokenTable("t")>>
    /\ pop.fields = <<Member(Field("t"),
                        JArr(<<Row(<<"x", "y", "z">>), Row(<<"u">>), Row(<<"v">>)>>))>>
    /\ pop.shapes[1].cells = << << <<"x">>, <<"y">> >>, << <<"u">>, <<>> >> >>

\* C14: populating one field changes at most one shape of the slide: the
\* first that holds its token; the other shapes keep theirs.
C14_OneShapePerField ==
    [][FieldPopulated
       => Cardinality({n \in 1..Len(pop.shapes) : pop'.shapes[n] # pop.shapes[n]}) <= 1]_vars


\* the field _populate_slide handles next has its token in no shape and no
\* table cell, or is declared an image
MissOrImage ==
    /\ pc = "populating"
    /\ pop.i < Len(pop.fields)
    /\ \/ ~TokenInShapes(pop.shapes, pop.fields[pop.i + 1].key)
       \/ FieldType(pop.metadata, pop.fields[pop.i + 1].key) = "image"

\* C25: populating a field whose token is in no shape and no table cell,
\* whatever its declared type, or a field declared an image, raises nothing
\* and leaves every shape, paragraph and cell of the slide as it was.
C25_MissAndImageChangeNothing ==
    [][MissOrImage =>
          /\ pc' = "populating"
          /\ pop'.exc = "none"
          /\ pop'.shapes = pop.shapes
          /\ pop'.i = pop.i + 1]_vars

\* an image field whose token is on the slide and a list field given a
\* number whose token is not were populated: the slide is as it started
C25_Witness ==
    /\ pc = "populated"
    /\ pop.fields = <<Member(Field("g"), JStr(<<"x">>)), Member(Field("l"), JNum("5"))>>
    /\ pop.start = <<TextBox(TokenPara("g")), TokenTable("t")>>
    /\ pop.shapes = pop.start


\* _populate_slide handles a table field next, a grid (a list of rows) is
\* supplied for it and some table of the slide holds its token
TableFieldWithToken ==
    /\ pc = "populating"
    /\ pop.i < Len(pop.fields)
    /\ FieldType(pop.metadata, pop.fields[pop.i + 1].key) = "table"
    /\ pop.fields[pop.i + 1].val.k = "arr"
    /\ FirstTable(pop.shapes, Token(pop.fields[pop.i + 1].key)) # 0

\* C26: for every grid supplied to a table field, the empty grid included,
\* after the field is populated the first table that held the token holds
\* it in no cell, and no other table of the slide is changed.
C26_TokenLeavesTheTable ==
    [][TableFieldWithToken =>
          /\ pc' = "populating"
          /\ ~TableContains(
                pop'.shapes[FirstTable(pop.shapes, Token(pop.fields[pop.i + 1].key))].cells,
                Token(pop.fields[pop.i + 1].key))
          /\ \A n \in 1..Len(pop.shapes) :
                n # FirstTable(pop.shapes, Token(pop.fields[pop.i + 1].key))
                   => pop'.shapes[n] = pop.shapes[n]]_vars


(***************************************************************************)
(* Properties of the layout resolution (SpecLayout).                       *)
(***************************************************************************)
\* the positions of the output layouts of the template slide's layout name
NamedLayouts ==
    {i \in 1..Len(unit.output_layouts) : unit.output_layouts[i].name = unit.layout_name}

\* C27: the layout of a new slide is the first output layout of the template
\* slide's layout name; else the output layout at the position of the
\* template slide's layout, if the output has that position; else the first
\* output layout; with no output layout the composition of the slide raises
\* an error naming the layout and adds no slide.
C27_LayoutResolutionOrder ==
    pc \in {"layout_resolved", "layout_added", "layout_raised"} =>
        /\ NamedLayouts # {} =>
              /\ unit.matching_layout \in NamedLayouts
              /\ \A i \in NamedLayouts : unit.matching_layout <= i
        /\ (NamedLayouts = {} /\ unit.position < Len(unit.output_layouts)) =>
              unit.matching_layout = unit.position + 1
        /\ (NamedLayouts = {} /\ unit.position >= Len(unit.output_layouts)
               /\ unit.output_layouts # <<>>) =>
              unit.matching_layout = 1
        /\ unit.output_layouts = <<>> => unit.matching_layout = 0
        /\ pc = "layout_added" => unit.slides = <<unit.matching_layout>>
        /\ pc = "layout_raised" =>
              /\ unit.output_layouts = <<>>
              /\ unit.slides = <<>>
              /\ unit.layout_name \in Range(unit.error)


(***************************************************************************)
(* Properties of the free-form copy pass (SpecCopy).                       *)
(***************************************************************************)
\* the target holds a shape of this kind at the place of the source shape,
\* with its image and its text
CopyAtPlace(sh, kind) ==
    \E m \in 1..Len(unit.target) :
        /\ unit.target[m].kind = kind
        /\ unit.target[m].pos = sh.pos
        /\ unit.target[m].img = sh.img
        /\ Contains(FrameText(unit.target[m]), FrameText(sh))
        /\ kind = "autoshape" =>
              /\ unit.target[m].geom = sh.geom
              /\ sh.fill \in {"rgb", "theme"} => unit.target[m].fill = sh.fill

\* C28: in the free-form copy pass no connector or line reaches the output
\* slide, an auto shape is copied exactly when its text is not empty after
\* trimming, then with its text, geometry and solid fill colour, and every
\* picture and text box that is no placeholder is copied at its position
\* and size.
C28_FreeFormCopyRules ==
    pc = "shapes_copied" =>
        /\ \A m \in 1..Len(unit.target) : unit.target[m].kind # "connector"
        /\ \A n \in 1..Len(unit.source) :
              /\ unit.source[n].kind = "autoshape" =>
                    (CopyAtPlace(unit.source[n], "autoshape")
                        <=> Strip(FrameText(unit.source[n])) # <<>>)
              /\ unit.source[n].kind \in {"picture", "linked_picture"} =>
                    CopyAtPlace(unit.source[n], "picture")
              /\ unit.source[n].kind = "textbox" =>
                    CopyAtPlace(unit.source[n], "textbox")


(***************************************************************************)
(* Properties of the simple path (SpecSimple).                             *)
(***************************************************************************)
\* the text of the shape (its frame, or the cells of its table) holds pat
ShapeHolds(sh, pat) ==
    \/ HasTextFrame(sh) /\ Contains(FrameText(sh), pat)
    \/ HasTable(sh) /\ TableContains(sh.cells, pat)

\* C29: generate replaces, on every slide of the template, each token of a
\* field the request supplies by str(value), and leaves a shape whose text
\* holds no supplied token as it is.
C29_SimplePathReplacesTokens ==
    pc = "generated" =>
        \A k \in 1..Len(unit.template) :
           \A n \in 1..Len(unit.template[k]) :
              /\ \A j \in 1..Len(unit.fields) :
                    ShapeHolds(unit.template[k][n], Token(unit.fields[j].key)) =>
                       /\ ShapeHolds(unit.output[k][n], PyStr(unit.fields[j].val))
                       /\ ~ShapeHolds(unit.output[k][n], Token(unit.fields[j].key))
              /\ (\A j \in 1..Len(unit.fields) :
                     ~ShapeHolds(unit.template[k][n], Token(unit.fields[j].key)))
                    => unit.output[k][n] = unit.template[k][n]


(***************************************************************************)
(* Properties of the two readers of the annotations (SpecAgree).           *)
(***************************************************************************)
\* the places of the catalog: bucket b, entry e
CatalogPlaces ==
    {p \in (1..Len(unit.slide_type_map)) \X (1..Len(unit.template)) :
        p[2] <= Len(unit.slide_type_map[p[1]].entries)}

CatalogEntry(p) == unit.slide_type_map[p[1]].entries[p[2]]

\* C24: while and after the catalog is built, every entry kept under key k
\* has metadata.slide_type equal to k, its index is the position of the
\* template slide whose notes hold its metadata, no template slide has two
\* places in the catalog, and the entries of a bucket are in increasing
\* index order.
C24_CatalogIsWellFormed ==
    /\ \A b \in 1..Len(unit.slide_type_map) :
          Len(unit.slide_type_map[b].entries) \in 1..Len(unit.template)
    /\ \A p \in CatalogPlaces :
          /\ DictGet(CatalogEntry(p).metadata, <<"slide_type">>)
                = unit.slide_type_map[p[1]].key
          /\ CatalogEntry(p).index \in 0..(Len(unit.template) - 1)
          /\ DeclaredMetadata(unit.template[CatalogEntry(p).index + 1])
                = CatalogEntry(p).metadata
          /\ p[2] > 1 =>
                unit.slide_type_map[p[1]].entries[p[2] - 1].index
                   < CatalogEntry(p).index
          /\ \A q \in CatalogPlaces :
                CatalogEntry(q).index = CatalogEntry(p).index => q = p

\* a finished catalog of one bucket that holds two slides of different
\* metadata
C24_Witness ==
    /\ pc = "agreed"
    /\ unit.catalog_exc = "none"
    /\ Len(unit.slide_type_map) = 1
    /\ Len(unit.slide_type_map[1].entries) = 2
    /\ unit.slide_type_map[1].entries[1].metadata
          # unit.slide_type_map[1].entries[2].metadata

\* the slide types get_template_slide_types returned
ReturnedTypes == {unit.slide_types[i].slide_type : i \in 1..Len(unit.slide_types)}

\* the types a request may name: the returned ones and a few others
CandidateTypes ==
    ReturnedTypes \cup {JStr(<<"a">>), JStr(<<"c">>), JStr(<<"z">>), JNone}

\* the entries are in slide order and each names the position of the slide
\* that declares its type
InSlideOrder ==
    /\ \A i \in 1..Len(unit.slide_types) :
          /\ unit.slide_types[i].slide_index \in 0..(Len(unit.template) - 1)
          /\ DeclaredMetadata(unit.template[unit.slide_types[i].slide_index + 1])
                # JNone
          /\ DictGetOr(DeclaredMetadata(
                 unit.template[unit.slide_types[i].slide_index + 1]),
                 <<"slide_type">>, JNone) = unit.slide_types[i].slide_type
    /\ \A i, j \in 1..Len(unit.slide_types) :
          i < j => unit.slide_types[i].slide_index < unit.slide_types[j].slide_index

\* C30: on every template, the entries get_template_slide_types returns are
\* in slide order with slide_index the position of the slide, and the types
\* it returns are exactly the types generate_from_slides accepts on that
\* template: every returned type resolves, every other type is not found.
C30_QueryAndComposerAgree ==
    (pc = "agreed" /\ unit.query_exc = "none") =>
        /\ InSlideOrder
        /\ \A t \in CandidateTypes : (t \in ReturnedTypes) <=> Accepts(t)

=============================================================================
